---- MODULE Spec2Model ----
(***************************************************************************)
(* Snapshot merge-and-partition engine and durable snapshot store of the   *)
(* free-games collector: SaveGamesUseCase (save_games.py) and              *)
(* JsonFileRepository (json_file_repo.py), with the Game / FreePeriod /    *)
(* Rating values they read, the rating enrichment (enrich_ratings.py) and  *)
(* the entry point that runs them in turn (main.py).                       *)
(*                                                                         *)
(* Conventions.                                                            *)
(*  - A Python dict / JSON object is a TLA+ record whose DOMAIN is the set *)
(*    of keys that are present; d.get(k, default) is Get(d, k, default).   *)
(*  - A Python str holding a timestamp is a sequence of character codes,   *)
(*    compared lexicographically as Python compares str; "" is <<>>.       *)
(*  - Optional values (x | None) are sequences of length <= 1.             *)
(*  - An insertion-ordered dict keyed by record id is the sequence of its  *)
(*    values in insertion order, with pairwise distinct ids.               *)
(*  - Instants are integers counting half seconds; windows and the clock   *)
(*    take values in 0..MaxClock.                                          *)
(*  - The payload fields that _game_to_dict copies verbatim (slug,         *)
(*    namespace, title, thumbnail, epicUrl, genres) are carried by the     *)
(*    single field title.                                                  *)
(***************************************************************************)
EXTENDS Integers, Sequences, FiniteSets, TLC

VARIABLES
    prev,       \* existing_data handed to SaveGamesUseCase.execute
    fresh,      \* games handed to save / execute
    reads,      \* the successive values datetime.now() returns during one execute
    out,        \* value returned by execute (or the raised marker)
    fs,         \* the directory of output_path: file name -> content
    now,        \* wall clock
    pc,         \* position of the running call
    result,     \* how the call of save ended: "none", "ok" or the step that raised
    before,     \* content of output_path when the running call started
    seen,       \* ids that were in currentFree or past after some save
    runs,       \* calls of save started so far
    ctor,       \* arguments handed to Rating(...), FreePeriod(...) or the enrichment
    rating,     \* the Rating constructed from ctor, or the raised marker
    call,       \* the method of Rating or of the adapter that ran last
    ret,        \* the value that method returned
    fetchers,   \* CompositeRatingAdapter.fetchers: what each fetcher will do
    scores,     \* fetch_rating's locals epic_score .. steam_score
    called,     \* what has been called so far, in order: fetchers, repository methods
    period,     \* the FreePeriod constructed from ctor, or the raised marker
    probes,     \* what is_active, is_currently_free and is_upcoming returned, and when
    procs       \* the locals of each of two calls of save that run at the same time

storeVars == <<prev, fresh, reads, out, fs, now, pc, result, before, seen, runs>>

ratingVars == <<ctor, rating, call, ret, fetchers, scores, called>>

periodVars == <<period, probes>>

raceVars == <<procs>>

vars == <<prev, fresh, reads, out, fs, now, pc, result, before, seen, runs,
          ctor, rating, call, ret, fetchers, scores, called, period, probes, procs>>

-----------------------------------------------------------------------------
(* Bounds *)

MaxTime == 2        \* window endpoints range over 0..MaxTime
MaxFresh == 2       \* longest list of fetched games
MaxPrev == 2        \* most records in a hand-made previous document
MaxDrift == 1       \* most ticks of the clock during one call
MaxRuns == 2        \* most calls of save in one behaviour of Spec, most runs of main
MaxSaves == 3       \* most calls of save in one behaviour of SpecRuns
MaxGames == 1       \* longest list of games saved in Spec, fetched in one run of main
MaxFetchers == 2    \* longest list of fetchers of the composite adapter
MaxEnriched == 2    \* longest list of games handed to update_past_ratings

MaxClock == MaxTime + 1

Ids == {"X", "Y"}

Min(a, b) == IF a < b THEN a ELSE b

-----------------------------------------------------------------------------
(* Optional values, dicts, strings *)

None == <<>>
Some(v) == <<v>>

Get(d, k, default) == IF k \in DOMAIN d THEN d[k] ELSE default

\* Python's str < str: code-point lexicographic order, a proper prefix is smaller.
StrLess(a, b) ==
    \E k \in 0..Min(Len(a), Len(b)) :
        /\ \A i \in 1..k : a[i] = b[i]
        /\ \/ k = Len(a) /\ k < Len(b)
           \/ k < Len(a) /\ k < Len(b) /\ a[k + 1] < b[k + 1]

Digit(n) == 48 + n

\* isoformat() of a datetime whose fraction of a second is dropped.
IsoFormatWhole(t) ==
    <<Digit(((t + 1) \div 2) \div 10), Digit(((t + 1) \div 2) % 10)>> \o <<43>>

\* datetime.isoformat() of a UTC datetime: fixed-width digits, the fraction
\* only when it is not zero, then the offset.  Instant t is the (t+1)-th half
\* second, so both shapes occur among small instants.  43 is "+", 46 is ".".
IsoFormat(t) ==
    <<Digit(((t + 1) \div 2) \div 10), Digit(((t + 1) \div 2) % 10)>>
        \o (IF (t + 1) % 2 = 1 THEN <<46, Digit(5)>> ELSE <<>>)
        \o <<43>>

\* datetime.fromisoformat: the instant a well-formed string denotes, None for
\* a string it rejects (ValueError).
fromisoformat(s) ==
    IF \E t \in 0..MaxClock : IsoFormat(t) = s
    THEN Some(CHOOSE t \in 0..MaxClock : IsoFormat(t) = s)
    ELSE None

-----------------------------------------------------------------------------
(* FreePeriod and Game *)

\* The check of __post_init__ that lets a window of no length through.
FreePeriodNotAfter(start, end) == start <= end

FreePeriodOk(start, end) == start < end

is_active(start, end, t) == start <= t /\ t <= end

\* is_currently_free that does not look at the end of the window.
is_currently_free_started(game, t) == game.start <= t

is_currently_free(game, t) == is_active(game.start, game.end, t)

\* is_upcoming that still holds at the first instant of the window.
is_upcoming_or_starting(game, t) == t <= game.start

is_upcoming(game, t) == t < game.start

-----------------------------------------------------------------------------
(* Rating *)

EXCELLENT_THRESHOLD == 75
GOOD_THRESHOLD == 50

\* Scores are integers; epic is kept in tenths (0..50 for 0.0..5.0), so its
\* normalised value (value / 5) * 100 is 2 * tenths.
RATING_SOURCE_CONFIGS ==
    [epic |-> [min |-> 0, max |-> 50],
     metacritic |-> [min |-> 0, max |-> 100],
     opencritic |-> [min |-> 0, max |-> 100],
     steam |-> [min |-> 0, max |-> 100]]

\* The four named fields of Rating, and the order the methods visit them in.
RatingFields == {"epic", "metacritic", "opencritic", "steam"}

validate_score(source_name, value) ==
    IF source_name \notin DOMAIN RATING_SOURCE_CONFIGS THEN TRUE
    ELSE /\ RATING_SOURCE_CONFIGS[source_name].min <= value
         /\ value <= RATING_SOURCE_CONFIGS[source_name].max

normalize_score(name, value) ==
    IF name \notin DOMAIN RATING_SOURCE_CONFIGS THEN value
    ELSE IF name = "epic" THEN 2 * value ELSE value

ValueError == [error |-> "ValueError"]

\* Rating(**a) without the range check of the additional sources.
RatingUncheckedSources(a) ==
    IF \E f \in RatingFields : a[f] # None /\ ~validate_score(f, a[f][1])
    THEN ValueError
    ELSE a

\* Rating(**a): the dataclass constructor followed by __post_init__.
Rating(a) ==
    IF \/ \E f \in RatingFields : a[f] # None /\ ~validate_score(f, a[f][1])
       \/ \E k \in DOMAIN a.additional_sources :
              ~validate_score(k, a.additional_sources[k])
    THEN ValueError
    ELSE a

\* get_all_scores: the named fields that are set, then update() with the
\* additional sources, whose value replaces a field's under the same name.
get_all_scores(r) ==
    [k \in {f \in RatingFields : r[f] # None} \cup DOMAIN r.additional_sources |->
        IF k \in DOMAIN r.additional_sources THEN r.additional_sources[k]
        ELSE r[k][1]]

\* get_all_scores_normalized that normalises the named fields only.
get_all_scores_normalized_fields_only(r) ==
    [k \in {f \in RatingFields : r[f] # None} \cup DOMAIN r.additional_sources |->
        IF k \in DOMAIN r.additional_sources THEN r.additional_sources[k]
        ELSE normalize_score(k, r[k][1])]

get_all_scores_normalized(r) ==
    [k \in {f \in RatingFields : r[f] # None} \cup DOMAIN r.additional_sources |->
        IF k \in DOMAIN r.additional_sources
        THEN normalize_score(k, r.additional_sources[k])
        ELSE normalize_score(k, r[k][1])]

\* sum(...) over the values of a dict.
RECURSIVE SumOf(_)
SumOf(d) ==
    IF DOMAIN d = {} THEN 0
    ELSE LET k == CHOOSE x \in DOMAIN d : TRUE
         IN  d[k] + SumOf([x \in DOMAIN d \ {k} |-> d[x]])

\* A float result is kept as the quotient num / den it is computed from.
Quotient(num, den) == [num |-> num, den |-> den]

Zero == Quotient(0, 1)

\* aggregate_score in which a source without an entry in weights weighs 1.0.
aggregate_score_default_one(r, weights) ==
    LET normalized == get_all_scores_normalized(r)
    IN  IF DOMAIN normalized = {} THEN Zero
        ELSE LET w == IF weights = None THEN [k \in DOMAIN normalized |-> 1]
                      ELSE weights[1]
                 total_weight == SumOf([k \in DOMAIN normalized |-> Get(w, k, 1)])
             IN  IF total_weight = 0 THEN Zero
                 ELSE Quotient(SumOf([k \in DOMAIN normalized |->
                                        normalized[k] * Get(w, k, 1)]),
                               total_weight)

\* aggregate_score that divides by the number of sources, not by their weight.
aggregate_score_by_count(r, weights) ==
    LET normalized == get_all_scores_normalized(r)
    IN  IF DOMAIN normalized = {} THEN Zero
        ELSE LET w == IF weights = None THEN [k \in DOMAIN normalized |-> 1]
                      ELSE weights[1]
                 total_weight == SumOf([k \in DOMAIN normalized |-> Get(w, k, 0)])
             IN  IF total_weight = 0 THEN Zero
                 ELSE Quotient(SumOf([k \in DOMAIN normalized |->
                                        normalized[k] * Get(w, k, 0)]),
                               Cardinality(DOMAIN normalized))

\* aggregate_score(weights): weights is None or Some(dict); weights.get(k, 0.0).
aggregate_score(r, weights) ==
    LET normalized == get_all_scores_normalized(r)
    IN  IF DOMAIN normalized = {} THEN Zero
        ELSE LET w == IF weights = None THEN [k \in DOMAIN normalized |-> 1]
                      ELSE weights[1]
                 total_weight == SumOf([k \in DOMAIN normalized |-> Get(w, k, 0)])
             IN  IF total_weight = 0 THEN Zero
                 ELSE Quotient(SumOf([k \in DOMAIN normalized |->
                                        normalized[k] * Get(w, k, 0)]),
                               total_weight)

\* The score score_color classifies: opencritic, else metacritic, else steam,
\* else aggregate_score().
representative_score(r) ==
    IF r.opencritic # None THEN Quotient(r.opencritic[1], 1)
    ELSE IF r.metacritic # None THEN Quotient(r.metacritic[1], 1)
    ELSE IF r.steam # None THEN Quotient(r.steam[1], 1)
    ELSE aggregate_score(r, None)

\* score >= threshold for the representative score; the quotient of
\* aggregate_score() has a positive denominator.
ScoreAtLeast(r, threshold) ==
    LET q == representative_score(r)
    IN  q.num >= threshold * q.den

\* score_color with > in place of >=.
score_color_strict(r) ==
    LET q == representative_score(r)
    IN  IF q.num > EXCELLENT_THRESHOLD * q.den THEN "green"
        ELSE IF q.num > GOOD_THRESHOLD * q.den THEN "yellow"
        ELSE "red"

score_color(r) ==
    IF ScoreAtLeast(r, EXCELLENT_THRESHOLD) THEN "green"
    ELSE IF ScoreAtLeast(r, GOOD_THRESHOLD) THEN "yellow"
    ELSE "red"

-----------------------------------------------------------------------------
(* JsonFileRepository._game_to_dict *)

game_to_dict(game) ==
    LET base == [id |-> game.id,
                 title |-> game.title,
                 freePeriod |-> [start |-> IsoFormat(game.start),
                                 end |-> IsoFormat(game.end)]]
    IN  IF game.rating # None
        THEN LET r == game.rating[1]
             IN  [id |-> base.id, title |-> base.title, freePeriod |-> base.freePeriod,
                  rating |-> [epic |-> r.epic, metacritic |-> r.metacritic,
                              opencritic |-> r.opencritic, steam |-> r.steam,
                              scoreColor |-> score_color(r)]]
        ELSE base

-----------------------------------------------------------------------------
(* SaveGamesUseCase *)

\* The ids of a list of records.
IdsOf(records) == {records[i].id : i \in 1..Len(records)}

\* A list in place of the dict: the record is added whether or not the id is
\* already there.
DictPutAppend(d, rec) == Append(d, rec)

\* d[rec["id"]] = rec on an insertion-ordered dict: an existing key keeps its
\* position and takes the new value, a new key goes last.
DictPut(d, rec) ==
    IF \E i \in 1..Len(d) : d[i].id = rec.id
    THEN [i \in 1..Len(d) |-> IF d[i].id = rec.id THEN rec ELSE d[i]]
    ELSE Append(d, rec)

\* {g["id"]: g for g in records}, continued from d.
RECURSIVE DictFrom(_, _)
DictFrom(d, records) ==
    IF records = <<>> THEN d
    ELSE DictFrom(DictPut(d, Head(records)), Tail(records))

\* The loop of _categorize_games from game i on.  rd[2i-1] is the clock value
\* is_currently_free reads for game i, rd[2i] the one is_upcoming reads.
RECURSIVE categorize_from(_, _, _, _, _)
categorize_from(games, rd, i, current_free_dict, upcoming_dict) ==
    IF i > Len(games) THEN <<current_free_dict, upcoming_dict>>
    ELSE LET game == games[i]
             game_dict == game_to_dict(game)
         IN  IF is_currently_free(game, rd[2 * i - 1])
             THEN categorize_from(games, rd, i + 1,
                                  DictPut(current_free_dict, game_dict), upcoming_dict)
             ELSE IF is_upcoming(game, rd[2 * i])
             THEN categorize_from(games, rd, i + 1,
                                  current_free_dict, DictPut(upcoming_dict, game_dict))
             ELSE categorize_from(games, rd, i + 1, current_free_dict, upcoming_dict)

categorize_games(games, rd) == categorize_from(games, rd, 1, <<>>, <<>>)

past_sort_key(game_dict) == Get(Get(game_dict, "freePeriod", <<>>), "end", <<>>)

\* One step of sorted(..., key=_past_sort_key, reverse=True): r goes before the
\* first record with a strictly smaller key (the sort is stable).
InsertDesc(s, r) ==
    LET smaller == {i \in 1..Len(s) : StrLess(past_sort_key(s[i]), past_sort_key(r))}
        k == IF smaller = {} THEN Len(s) + 1
             ELSE CHOOSE i \in smaller : \A j \in smaller : i <= j
    IN  SubSeq(s, 1, k - 1) \o <<r>> \o SubSeq(s, k, Len(s))

\* sorted without reverse=True: ascending order of the key.
RECURSIVE sorted_ascending(_)
sorted_ascending(s) ==
    IF s = <<>> THEN <<>>
    ELSE LET rest == sorted_ascending(SubSeq(s, 1, Len(s) - 1))
             r == s[Len(s)]
             larger == {i \in 1..Len(rest) : StrLess(past_sort_key(r), past_sort_key(rest[i]))}
             k == IF larger = {} THEN Len(rest) + 1
                  ELSE CHOOSE i \in larger : \A j \in larger : i <= j
         IN  SubSeq(rest, 1, k - 1) \o <<r>> \o SubSeq(rest, k, Len(rest))

\* sorted(...)[::-1] in place of reverse=True: records with equal keys come out
\* in the reverse of their order in s.
sorted_then_reversed(s) ==
    LET asc == sorted_ascending(s)
    IN  [i \in 1..Len(asc) |-> asc[Len(asc) + 1 - i]]

RECURSIVE sorted_reverse(_)
sorted_reverse(s) ==
    IF s = <<>> THEN <<>>
    ELSE InsertDesc(sorted_reverse(SubSeq(s, 1, Len(s) - 1)), s[Len(s)])

\* PopLive without the pop: live ids stay in the carried-forward past.
PopLiveKept(existing_past, live) == existing_past

\* for game_id in current_ids | upcoming_ids: existing_past.pop(game_id, None)
PopLive(existing_past, live) ==
    SelectSeq(existing_past, LAMBDA g : g.id \notin live)

\* MoveExpired with setdefault in place of the assignment: a record the past
\* already holds for the id is kept.
RECURSIVE MoveExpiredSetDefault(_, _, _)
MoveExpiredSetDefault(existing_past, existing_current, live) ==
    IF existing_current = <<>> THEN existing_past
    ELSE LET g == Head(existing_current)
         IN  MoveExpiredSetDefault(
                IF g.id \notin live /\ g.id \notin IdsOf(existing_past)
                THEN Append(existing_past, g) ELSE existing_past,
                Tail(existing_current), live)

\* MoveExpired without the test of line 28: every record of the previous
\* currentFree goes to the past.
RECURSIVE MoveExpiredUnguarded(_, _, _)
MoveExpiredUnguarded(existing_past, existing_current, live) ==
    IF existing_current = <<>> THEN existing_past
    ELSE MoveExpiredUnguarded(DictPut(existing_past, Head(existing_current)),
                              Tail(existing_current), live)

\* for game_id, game_dict in existing_current.items(): move when not live
RECURSIVE MoveExpired(_, _, _)
MoveExpired(existing_past, existing_current, live) ==
    IF existing_current = <<>> THEN existing_past
    ELSE LET g == Head(existing_current)
         IN  MoveExpired(IF g.id \notin live THEN DictPut(existing_past, g)
                         ELSE existing_past,
                         Tail(existing_current), live)

\* existing_data.get("past", []) and existing_data.get("currentFree", [])
ExistingPastList(existing_data) == Get(existing_data, "past", <<>>)

ExistingCurrentList(existing_data) == Get(existing_data, "currentFree", <<>>)

KeyError == [error |-> "KeyError"]

Raised(v) == "error" \in DOMAIN v

\* execute that keeps, for an id that stays in currentFree, the rating object
\* of the previous currentFree record when the fresh game has no Rating.
execute_rating_kept(games, existing_data, rd) ==
    LET pastIn == ExistingPastList(existing_data)
        currentIn == ExistingCurrentList(existing_data)
    IN  IF \/ \E i \in 1..Len(pastIn) : "id" \notin DOMAIN pastIn[i]
           \/ \E i \in 1..Len(currentIn) : "id" \notin DOMAIN currentIn[i]
        THEN KeyError
        ELSE LET existing_past == DictFrom(<<>>, pastIn)
                 existing_current == DictFrom(<<>>, currentIn)
                 cat == categorize_games(games, rd)
                 stored(rec) == {i \in 1..Len(existing_current) :
                                    /\ existing_current[i].id = rec.id
                                    /\ "rating" \in DOMAIN existing_current[i]}
                 kept(rec) ==
                     IF "rating" \in DOMAIN rec \/ stored(rec) = {} THEN rec
                     ELSE [k \in DOMAIN rec \cup {"rating"} |->
                              IF k = "rating"
                              THEN existing_current[CHOOSE i \in stored(rec) : TRUE].rating
                              ELSE rec[k]]
                 current_free == [i \in 1..Len(cat[1]) |-> kept(cat[1][i])]
                 upcoming == cat[2]
                 live == IdsOf(current_free) \cup IdsOf(upcoming)
                 popped == PopLive(existing_past, live)
                 moved == MoveExpired(popped, existing_current, live)
             IN  [updated |-> IsoFormat(rd[2 * Len(games) + 1]),
                  currentFree |-> current_free,
                  upcoming |-> upcoming,
                  past |-> sorted_reverse(moved)]

\* SaveGamesUseCase.execute; rd[2 * Len(games) + 1] is the clock value the
\* updated stamp reads.
execute(games, existing_data, rd) ==
    LET pastIn == ExistingPastList(existing_data)
        currentIn == ExistingCurrentList(existing_data)
    IN  IF \/ \E i \in 1..Len(pastIn) : "id" \notin DOMAIN pastIn[i]
           \/ \E i \in 1..Len(currentIn) : "id" \notin DOMAIN currentIn[i]
        THEN KeyError
        ELSE LET existing_past == DictFrom(<<>>, pastIn)
                 existing_current == DictFrom(<<>>, currentIn)
                 cat == categorize_games(games, rd)
                 current_free == cat[1]
                 upcoming == cat[2]
                 live == IdsOf(current_free) \cup IdsOf(upcoming)
                 popped == PopLive(existing_past, live)
                 moved == MoveExpired(popped, existing_current, live)
             IN  [updated |-> IsoFormat(rd[2 * Len(games) + 1]),
                  currentFree |-> current_free,
                  upcoming |-> upcoming,
                  past |-> sorted_reverse(moved)]

-----------------------------------------------------------------------------
(* The files of JsonFileRepository *)

OutputPath == "games-free.json"

\* temp_path that is the target itself: the text is written in place.
temp_path_in_place(output_path) == output_path

\* output_path.with_suffix('.tmp')
temp_path(output_path) == "games-free.tmp"

Paths == {OutputPath, temp_path(OutputPath)}

\* Contents a file can have: none (the path does not exist), bytes that
\* cannot be read (read_text raises IOError), bytes that are not UTF-8, text
\* that is not JSON, JSON that is not an object, a JSON object, or the
\* beginning of the text of a JSON object left by an interrupted write.
Missing == [kind |-> "missing"]
Unreadable == [kind |-> "unreadable"]
BadUtf8 == [kind |-> "bad_utf8"]
BadJson == [kind |-> "bad_json"]
NonObject == [kind |-> "non_object"]
Obj(data) == [kind |-> "object", doc |-> data]
Partial(data) == [kind |-> "partial", doc |-> data]

EmptyDir == [p \in Paths |-> Missing]

exists(fsv, path) == fsv[path].kind # "missing"

\* write_text that opens the file for exclusive creation and leaves a file
\* that is already there as it is.
write_text_exclusive(fsv, path, data) ==
    IF fsv[path].kind # "missing" THEN fsv ELSE [fsv EXCEPT ![path] = Obj(data)]

\* Path.write_text run to completion, and interrupted after some bytes.
write_text(fsv, path, data) == [fsv EXCEPT ![path] = Obj(data)]

write_text_partial(fsv, path, data) == [fsv EXCEPT ![path] = Partial(data)]

\* Path.rename: the destination is replaced in one step (POSIX rename).
rename(fsv, src, dst) ==
    IF src = dst THEN fsv
    ELSE [fsv EXCEPT ![dst] = fsv[src], ![src] = Missing]

unlink(fsv, path) == [fsv EXCEPT ![path] = Missing]

\* cleanup that leaves the temporary file behind.
cleanup_skipped(fsv, temp) == fsv

\* The except branch of _write_to_file: remove the temporary file if it exists.
cleanup(fsv, temp) == IF exists(fsv, temp) THEN unlink(fsv, temp) ELSE fsv

EmptyDict == <<>>

\* A JSON value that is not a list, as the value of a key of the document.
NotAList == <<[notAList |-> TRUE]>>

IsList(v) == v # NotAList

SetKey(d, k, v) == [x \in DOMAIN d \cup {k} |-> IF x = k THEN v ELSE d[x]]

UnicodeDecodeError == [error |-> "UnicodeDecodeError"]

\* _load_existing_data that looks at currentFree only when past was reset.
load_existing_data_coupled(fsv) ==
    LET f == fsv[OutputPath]
    IN  IF f.kind = "bad_utf8" THEN UnicodeDecodeError
        ELSE IF f.kind # "object" THEN EmptyDict
        ELSE LET data == f.doc
             IN  IF "past" \notin DOMAIN data \/ ~IsList(data.past)
                 THEN SetKey(SetKey(data, "past", <<>>), "currentFree",
                             IF "currentFree" \in DOMAIN data /\ IsList(data.currentFree)
                             THEN data.currentFree ELSE <<>>)
                 ELSE data

\* JsonFileRepository._load_existing_data.  read_text raises IOError for an
\* unreadable file and UnicodeDecodeError for bytes that are not UTF-8;
\* json.loads raises JSONDecodeError for text that is not JSON.  The except
\* clause names JSONDecodeError and IOError only.
load_existing_data(fsv) ==
    LET f == fsv[OutputPath]
    IN  IF ~exists(fsv, OutputPath) THEN EmptyDict
        ELSE IF f.kind = "unreadable" THEN EmptyDict
        ELSE IF f.kind = "bad_utf8" THEN UnicodeDecodeError
        ELSE IF f.kind \in {"bad_json", "partial"} THEN EmptyDict
        ELSE IF f.kind = "non_object" THEN EmptyDict
        ELSE LET data == f.doc
                 d1 == IF "past" \notin DOMAIN data \/ ~IsList(data.past)
                       THEN SetKey(data, "past", <<>>) ELSE data
                 d2 == IF "currentFree" \notin DOMAIN d1 \/ ~IsList(d1.currentFree)
                       THEN SetKey(d1, "currentFree", <<>>) ELSE d1
             IN  d2

-----------------------------------------------------------------------------
(* Inputs of the merge engine *)

Windows == {w \in (0..MaxTime) \X (0..MaxTime) : FreePeriodOk(w[1], w[2])}

Game(id, title, w) ==
    [id |-> id, title |-> title, start |-> w[1], end |-> w[2], rating |-> None]

\* Fetched lists: the game at position i carries title i, so that two
\* occurrences of one id are always told apart.
FreshLists ==
    {[i \in 1..Len(f) |-> Game(f[i][1], i, f[i][2])] :
        f \in UNION {[1..k -> Ids \X Windows] : k \in 0..MaxFresh}}

\* Records of a previous document: written by an earlier version of the
\* program or by hand; title 0, with or without a freePeriod.
PrevRecs ==
    {[id |-> d, title |-> 0,
      freePeriod |-> [start |-> IsoFormat(0), end |-> IsoFormat(e)]] :
        d \in Ids, e \in 1..MaxTime}
    \cup {[id |-> d, title |-> 0] : d \in Ids}

SeqsUpTo(S, n) == UNION {[1..k -> S] : k \in 0..n}

Doc(updated, currentFree, upcoming, past) ==
    [updated |-> updated, currentFree |-> currentFree,
     upcoming |-> upcoming, past |-> past]

PrevDocs ==
    {Doc(IsoFormat(0), t[1], t[2], t[3]) :
        t \in {u \in SeqsUpTo(PrevRecs, MaxPrev) \X SeqsUpTo(PrevRecs, MaxPrev)
                        \X SeqsUpTo(PrevRecs, MaxPrev) :
                    Len(u[1]) + Len(u[2]) + Len(u[3]) <= MaxPrev}}

\* The clock never runs backwards and ticks at most MaxDrift times in a call.
\* Clock values read by one call that starts at instant t: tick d falls just before read k[d], or after the
\* last read when k[d] = n + 1.
ReadsFrom(t, n) ==
    {r \in {[i \in 1..n |-> t + Cardinality({d \in 1..MaxDrift : k[d] <= i})] :
                k \in [1..MaxDrift -> 2..(n + 1)]} :
        r[n] <= MaxClock}

ClockReads(n) == UNION {ReadsFrom(t, n) : t \in 0..MaxClock}

Pending == [pending |-> TRUE]

\* No Rating has been constructed and no fetch_rating is running.
RatingIdle ==
    /\ ctor = Pending
    /\ rating = Pending
    /\ call = [op |-> "none"]
    /\ ret = Pending
    /\ fetchers = <<>>
    /\ scores = Pending
    /\ called = <<>>

\* No FreePeriod has been constructed and no predicate evaluated.
PeriodIdle ==
    /\ period = Pending
    /\ probes = {}

\* No two calls of save are running at the same time.
RaceIdle == procs = <<>>

-----------------------------------------------------------------------------
(* SpecMerge: execute applied to bounded inputs *)

InitMerge ==
    /\ prev \in PrevDocs
    /\ fresh \in FreshLists
    /\ reads \in ClockReads(2 * Len(fresh) + 1)
    /\ out = Pending
    /\ now = reads[1]
    /\ pc = "execute"
    /\ fs = EmptyDir
    /\ result = "none"
    /\ before = Missing
    /\ seen = {}
    /\ runs = 0
    /\ RatingIdle
    /\ PeriodIdle
    /\ RaceIdle

Merge ==
    /\ pc = "execute"
    /\ out' = execute(fresh, prev, reads)
    /\ now' = reads[Len(reads)]
    /\ pc' = "executed"
    /\ UNCHANGED <<prev, fresh, reads, fs, result, before, seen, runs, ratingVars, periodVars, raceVars>>

NextMerge == Merge

SpecMerge == InitMerge /\ [][NextMerge]_vars

Merged == pc = "executed" /\ ~Raised(out)

-----------------------------------------------------------------------------
(* Properties of the merge engine, checked under SpecMerge *)

\* What the loop of _categorize_games decides for the game at position i.
ClassifiedCurrent(i) == is_currently_free(fresh[i], reads[2 * i - 1])

ClassifiedUpcoming(i) ==
    ~ClassifiedCurrent(i) /\ is_upcoming(fresh[i], reads[2 * i])

LiveIds ==
    {fresh[i].id : i \in {j \in 1..Len(fresh) : ClassifiedCurrent(j) \/ ClassifiedUpcoming(j)}}

\* The records of a list that carry a given id.
RecordsOf(records, id) == {records[i] : i \in {j \in 1..Len(records) : records[j].id = id}}

\* The last record of a list that carries a given id.
LastOf(records, id) ==
    records[CHOOSE i \in 1..Len(records) :
                /\ records[i].id = id
                /\ \A j \in (i + 1)..Len(records) : records[j].id # id]

\* C1: no id of the new currentFree or upcoming list is in the new past list,
\* and an id of the previous past that a fetched game classified as current
\* carries is in the new currentFree and not in the new past.
C1_LiveNotInPast ==
    Merged =>
        /\ (IdsOf(out.currentFree) \cup IdsOf(out.upcoming)) \cap IdsOf(out.past) = {}
        /\ \A i \in 1..Len(fresh) :
              (fresh[i].id \in IdsOf(prev.past) /\ ClassifiedCurrent(i))
                => /\ fresh[i].id \in IdsOf(out.currentFree)
                   /\ fresh[i].id \notin IdsOf(out.past)

C1_Witness ==
    /\ Merged
    /\ \E i \in 1..Len(fresh) :
          /\ fresh[i].id \in IdsOf(prev.past)
          /\ ClassifiedCurrent(i)
          /\ fresh[i].id \in IdsOf(out.currentFree)

\* C2: in every merged document no id is in both currentFree and upcoming.
C2_CurrentUpcomingDisjoint ==
    Merged => IdsOf(out.currentFree) \cap IdsOf(out.upcoming) = {}

\* C3: every record that the new currentFree or upcoming list holds for an id
\* is the serialised last occurrence of that id in the fetched list.
C3_LastOccurrenceWins ==
    Merged =>
        \A id \in IdsOf(fresh) :
            RecordsOf(out.currentFree, id) \cup RecordsOf(out.upcoming, id)
                \subseteq {game_to_dict(LastOf(fresh, id))}

\* C4: an id of the previous currentFree that no fetched game brings back as
\* current or upcoming is in the new past with exactly its previous
\* currentFree record (the last one, should the list repeat the id), whatever
\* the previous past held for it, and is not in the new currentFree; with an
\* empty fetch this covers every id of the previous currentFree.
C4_ExpiryMigration ==
    Merged =>
        /\ \A id \in IdsOf(prev.currentFree) \ LiveIds :
              /\ RecordsOf(out.past, id) = {LastOf(prev.currentFree, id)}
              /\ Cardinality({i \in 1..Len(out.past) : out.past[i].id = id}) = 1
              /\ id \notin IdsOf(out.currentFree)
        /\ fresh = <<>> => IdsOf(prev.currentFree) \subseteq IdsOf(out.past)

C4_Witness ==
    /\ Merged
    /\ \E id \in (IdsOf(prev.currentFree) \cap IdsOf(prev.past)) \ LiveIds :
          /\ LastOf(prev.currentFree, id) \notin RecordsOf(prev.past, id)
          /\ LastOf(prev.currentFree, id) \in RecordsOf(out.past, id)
          /\ fresh # <<>>

HasEnd(rec) == "freePeriod" \in DOMAIN rec /\ "end" \in DOMAIN rec.freePeriod

EndOf(rec) == fromisoformat(rec.freePeriod.end)[1]

\* C6: the new past list is in descending order of the end instants its
\* records denote, and no record without an end precedes one that has an end.
C6_PastSorted ==
    Merged =>
        \A i, j \in 1..Len(out.past) :
            i < j =>
                /\ HasEnd(out.past[j]) => HasEnd(out.past[i])
                /\ (HasEnd(out.past[i]) /\ HasEnd(out.past[j]))
                      => EndOf(out.past[i]) >= EndOf(out.past[j])

C6_Witness ==
    /\ Merged
    /\ Len(prev.past) = 2
    /\ Len(out.past) = 2
    /\ HasEnd(out.past[1]) /\ HasEnd(out.past[2])
    /\ EndOf(out.past[1]) > EndOf(out.past[2])
    /\ out.past[1] = prev.past[2]
    /\ out.past[2] = prev.past[1]

\* execute with the loop of lines 27-29 run before the loop of lines 23-25.
execute_move_first(games, existing_data, rd) ==
    LET existing_past == DictFrom(<<>>, ExistingPastList(existing_data))
        existing_current == DictFrom(<<>>, ExistingCurrentList(existing_data))
        cat == categorize_games(games, rd)
        live == IdsOf(cat[1]) \cup IdsOf(cat[2])
        moved == MoveExpired(existing_past, existing_current, live)
        popped == PopLive(moved, live)
    IN  [updated |-> IsoFormat(rd[2 * Len(games) + 1]),
         currentFree |-> cat[1],
         upcoming |-> cat[2],
         past |-> sorted_reverse(popped)]

\* C25, as stated: for some fetched list and previous document, running the
\* move of expired records before the removal of reappeared ids gives a
\* document other than the one execute gives.
C25_OrderMatters ==
    Merged =>
        \E p \in PrevDocs, f \in FreshLists :
            \E rd \in ClockReads(2 * Len(f) + 1) :
                execute_move_first(f, p, rd) # execute(f, p, rd)

\* C25: running the move of expired records before the removal of reappeared
\* ids gives the document execute gives, for every fetched list and previous
\* document: the removal touches only live ids and the move only ids that
\* are not live.
C25_OrderIrrelevant ==
    Merged => execute_move_first(fresh, prev, reads) = out

C25_Witness ==
    /\ Merged
    /\ fresh # <<>>
    /\ \E id \in (IdsOf(prev.currentFree) \cap IdsOf(prev.past)) \ LiveIds :
          /\ RecordsOf(prev.currentFree, id) \cap RecordsOf(prev.past, id) = {}
          /\ execute_move_first(fresh, prev, reads).past = out.past
          /\ Len(out.past) = 1

\* C26: every fetched game whose window has not ended when execute returns
\* is in the new currentFree or upcoming list.
C26_UnexpiredClassified ==
    Merged =>
        \A i \in 1..Len(fresh) :
            reads[Len(reads)] <= fresh[i].end
                => fresh[i].id \in IdsOf(out.currentFree) \cup IdsOf(out.upcoming)

\* The records of a list.
RangeOf(records) == {records[i] : i \in 1..Len(records)}

\* C28: a fetched game whose window ended before execute started is
\* serialised into none of the new lists; if its id is in the new past, the
\* id was in the previous past or currentFree and every record the new past
\* holds for it is one of the previous records.
C28_ExpiredFreshDropped ==
    Merged =>
        \A i \in 1..Len(fresh) :
            fresh[i].end < reads[1] =>
                LET id == fresh[i].id
                IN  /\ game_to_dict(fresh[i]) \notin
                          RangeOf(out.currentFree) \cup RangeOf(out.upcoming)
                            \cup RangeOf(out.past)
                    /\ id \in IdsOf(out.past) =>
                          /\ id \in IdsOf(prev.past) \cup IdsOf(prev.currentFree)
                          /\ RecordsOf(out.past, id) \subseteq
                                RecordsOf(prev.past, id) \cup RecordsOf(prev.currentFree, id)

C28_Witness ==
    /\ Merged
    /\ \E i \in 1..Len(fresh) :
          /\ fresh[i].end < reads[1]
          /\ fresh[i].id \in IdsOf(prev.currentFree)
          /\ fresh[i].id \in IdsOf(out.past)
          /\ fresh[i].id \notin IdsOf(out.currentFree) \cup IdsOf(out.upcoming)

\* The clock shows one value at every read of the call.
ClockFixed == \A k \in 1..Len(reads) : reads[k] = reads[1]

\* C29: with the clock standing still, execute applied to the same fetched
\* list and its own result gives the same currentFree, upcoming and past.
C29_MergeIdempotent ==
    (Merged /\ ClockFixed) =>
        LET again == execute(fresh, out, reads)
        IN  /\ ~Raised(again)
            /\ again.currentFree = out.currentFree
            /\ again.upcoming = out.upcoming
            /\ again.past = out.past

C29_Witness ==
    /\ Merged
    /\ ClockFixed
    /\ fresh # <<>>
    /\ prev.currentFree # <<>>
    /\ Len(out.past) = 2
    /\ past_sort_key(out.past[1]) = past_sort_key(out.past[2])
    /\ out.past # prev.past
    /\ execute(fresh, out, reads).past = out.past

\* The positions of a list that hold a record with a given id.
PositionsOf(records, id) == {i \in 1..Len(records) : records[i].id = id}

\* C30: the new past list holds at most one record for an id, also when the
\* previous past held several or the previous past and currentFree both
\* held one.
C30_PastOnePerId ==
    Merged => \A id \in Ids : Cardinality(PositionsOf(out.past, id)) <= 1

C30_Witness ==
    /\ Merged
    /\ \E id \in Ids :
          /\ Cardinality(PositionsOf(prev.past, id)) = 2
          /\ Cardinality(PositionsOf(out.past, id)) = 1

-----------------------------------------------------------------------------
(* Spec: the steps of JsonFileRepository.save on the files *)

\* Contents output_path can have when the program starts.
InitialFiles ==
    {Missing, Unreadable, BadUtf8, BadJson, NonObject}
    \cup {Obj(d) : d \in {e \in PrevDocs : Len(e.upcoming) = 0 /\ Len(e.past) = 0}}

Init ==
    /\ fs \in {[EmptyDir EXCEPT ![OutputPath] = f] : f \in InitialFiles}
    /\ now = 0
    /\ pc = "idle"
    /\ result = "none"
    /\ before = Missing
    /\ prev = Pending
    /\ fresh = <<>>
    /\ reads = <<>>
    /\ out = Pending
    /\ seen = {}
    /\ runs = 0
    /\ RatingIdle
    /\ PeriodIdle
    /\ RaceIdle

\* The clock advances between calls.
Tick ==
    /\ pc = "idle"
    /\ now < MaxClock
    /\ now' = now + 1
    /\ UNCHANGED <<prev, fresh, reads, out, fs, pc, result, before, seen, runs, ratingVars, periodVars, raceVars>>

\* save, line 24: existing_data = self._load_existing_data(); an exception
\* of the load ends the call.
Load ==
    /\ pc = "idle"
    /\ runs < MaxRuns
    /\ runs' = runs + 1
    /\ before' = fs[OutputPath]
    /\ prev' = load_existing_data(fs)
    /\ IF Raised(prev')
       THEN pc' = "done" /\ result' = "load_raised"
       ELSE pc' = "loaded" /\ result' = "none"
    /\ UNCHANGED <<fresh, reads, out, fs, now, seen, ratingVars, periodVars, raceVars>>

\* save, line 25: execute(games, existing_data), for any list of games.
Execute ==
    /\ pc = "loaded"
    /\ \E games \in {g \in FreshLists : Len(g) <= MaxGames} :
         \E rd \in ReadsFrom(now, 2 * Len(games) + 1) :
            /\ out' = execute(games, prev, rd)
            /\ now' = rd[Len(rd)]
    /\ IF Raised(out')
       THEN pc' = "done" /\ result' = "execute_raised"
       ELSE pc' = "mkdir" /\ result' = "none"
    /\ UNCHANGED <<prev, fresh, reads, fs, before, seen, runs, ratingVars, periodVars, raceVars>>

\* _write_to_file, line 30: mkdir(parents=True, exist_ok=True) succeeds.
Mkdir ==
    /\ pc = "mkdir"
    /\ pc' = "write"
    /\ UNCHANGED <<prev, fresh, reads, out, fs, now, result, before, seen, runs, ratingVars, periodVars, raceVars>>

\* mkdir raises, outside the try block; it can only fail to create a
\* directory that does not exist yet, so the directory holds no file.
MkdirFails ==
    /\ pc = "mkdir"
    /\ fs = EmptyDir
    /\ pc' = "done"
    /\ result' = "mkdir_raised"
    /\ UNCHANGED <<prev, fresh, reads, out, fs, now, before, seen, runs, ratingVars, periodVars, raceVars>>

\* lines 35-38: temp_path.write_text(json.dumps(output_data)) completes.
WriteTemp ==
    /\ pc = "write"
    /\ fs' = write_text(fs, temp_path(OutputPath), out)
    /\ pc' = "rename"
    /\ UNCHANGED <<prev, fresh, reads, out, now, result, before, seen, runs, ratingVars, periodVars, raceVars>>

\* write_text raises: before the file is opened, or after some bytes.
WriteTempFails ==
    /\ pc = "write"
    /\ \/ fs' = fs
       \/ fs' = write_text_partial(fs, temp_path(OutputPath), out)
    /\ pc' = "except"
    /\ UNCHANGED <<prev, fresh, reads, out, now, result, before, seen, runs, ratingVars, periodVars, raceVars>>

\* line 40: temp_path.rename(self.output_path) succeeds; save returns.
Rename ==
    /\ pc = "rename"
    /\ fs' = rename(fs, temp_path(OutputPath), OutputPath)
    /\ pc' = "done"
    /\ result' = "ok"
    /\ UNCHANGED <<prev, fresh, reads, out, now, before, seen, runs, ratingVars, periodVars, raceVars>>

RenameFails ==
    /\ pc = "rename"
    /\ pc' = "except"
    /\ UNCHANGED <<prev, fresh, reads, out, fs, now, result, before, seen, runs, ratingVars, periodVars, raceVars>>

\* lines 42-47: the except branch removes the temporary file and re-raises.
Except ==
    /\ pc = "except"
    /\ fs' = cleanup(fs, temp_path(OutputPath))
    /\ pc' = "done"
    /\ result' = "write_raised"
    /\ UNCHANGED <<prev, fresh, reads, out, now, before, seen, runs, ratingVars, periodVars, raceVars>>

\* The process is killed inside _write_to_file; a kill during write_text
\* may leave the beginning of the text in the file being written.
Crash ==
    /\ pc \in {"mkdir", "write", "rename", "except"}
    /\ \/ fs' = fs
       \/ pc = "write" /\ fs' = write_text_partial(fs, temp_path(OutputPath), out)
    /\ pc' = "crashed"
    /\ UNCHANGED <<prev, fresh, reads, out, now, result, before, seen, runs, ratingVars, periodVars, raceVars>>

\* The call has returned or raised, or the program is started again after a
\* kill: the locals of the call are gone.
Return ==
    /\ pc \in {"done", "crashed"}
    /\ pc' = "idle"
    /\ prev' = Pending
    /\ out' = Pending
    /\ before' = Missing
    /\ result' = "none"
    /\ UNCHANGED <<fresh, reads, fs, now, seen, runs, ratingVars, periodVars, raceVars>>

Next ==
    \/ Tick
    \/ Load
    \/ Execute
    \/ Mkdir
    \/ MkdirFails
    \/ WriteTemp
    \/ WriteTempFails
    \/ Rename
    \/ RenameFails
    \/ Except
    \/ Crash
    \/ Return

Spec == Init /\ [][Next]_vars

-----------------------------------------------------------------------------
(* SpecRuns: successive successful calls of save *)

InitRuns ==
    /\ fs = EmptyDir
    /\ now = 0
    /\ pc = "idle"
    /\ result = "none"
    /\ before = Missing
    /\ prev = Pending
    /\ fresh = <<>>
    /\ reads = <<>>
    /\ out = Pending
    /\ seen = {}
    /\ runs = 0
    /\ RatingIdle
    /\ PeriodIdle
    /\ RaceIdle

\* One call of save that returns: load, execute, write the temporary file,
\* rename it.  The clock stands still during the call and moves between calls.
Save ==
    /\ pc = "idle"
    /\ runs < MaxSaves
    /\ runs' = runs + 1
    /\ \E games \in FreshLists :
         \E rd \in {[i \in 1..(2 * Len(games) + 1) |-> now]} :
          \E existing_data \in {load_existing_data(fs)} :
           \E output_data \in {IF Raised(existing_data) THEN existing_data
                                ELSE execute(games, existing_data, rd)} :
            LET temp == temp_path(OutputPath)
            IN  /\ ~Raised(output_data)
                /\ fs' = rename(write_text(fs, temp, output_data), temp, OutputPath)
                /\ now' = rd[Len(rd)]
                /\ seen' = seen \cup IdsOf(output_data.currentFree)
                                 \cup IdsOf(output_data.past)
                /\ prev' = existing_data
                /\ fresh' = games
                /\ reads' = rd
                /\ out' = output_data
    /\ result' = "ok"
    /\ UNCHANGED <<pc, before, ratingVars, periodVars, raceVars>>

NextRuns ==
    \/ Tick
    \/ Save

SpecRuns == InitRuns /\ [][NextRuns]_vars

-----------------------------------------------------------------------------
(* Properties of the runs, checked under SpecRuns *)

\* The ids of the three lists of the document in output_path.
PersistedIds ==
    LET d == fs[OutputPath].doc
    IN  IdsOf(d.currentFree) \cup IdsOf(d.upcoming) \cup IdsOf(d.past)

\* C5: after every save that returned, every id that was in currentFree or
\* past after some earlier save is in currentFree, upcoming or past.
C5_HistoryNeverLost ==
    result = "ok" => seen \subseteq PersistedIds

\* C7: in a save that follows an earlier save, replacing the upcoming list of
\* the loaded document by any other list leaves the merged document
\* unchanged, and an id of the loaded upcoming list that no fetched game
\* carries is in no list of the new document.
C7_UpcomingNoInfluence ==
    (result = "ok" /\ runs >= 2) =>
        /\ \A u \in SeqsUpTo(PrevRecs, MaxPrev) :
              execute(fresh, [prev EXCEPT !.upcoming = u], reads) = out
        /\ \A id \in IdsOf(prev.upcoming) \ IdsOf(fresh) :
              id \notin IdsOf(out.currentFree) \cup IdsOf(out.upcoming)
                            \cup IdsOf(out.past)

-----------------------------------------------------------------------------
(* Properties of the file steps, checked under Spec *)

\* C8: when the except branch of _write_to_file ends the call, the call raises,
\* output_path holds what it held when the call started, and the temporary
\* file does not exist.
C8_WriteFailure ==
    [][(pc = "except" /\ pc' = "done")
         => /\ result' = "write_raised"
            /\ fs'[OutputPath] = before
            /\ ~exists(fs', temp_path(OutputPath))]_vars

C8_Witness ==
    /\ pc = "done"
    /\ result = "write_raised"
    /\ before.kind = "object"
    /\ fs[OutputPath] = before
    /\ out.currentFree # <<>>
    /\ runs = MaxRuns

\* C9: from the start of a call to its end, and after a kill at any step,
\* output_path holds what it held when the call started or the whole new
\* document, never the beginning of a text.
C9_TargetNeverPartial ==
    /\ fs[OutputPath].kind # "partial"
    /\ pc # "idle"
         => \/ fs[OutputPath] = before
            \/ pc \in {"done", "crashed"} /\ fs[OutputPath] = Obj(out)

C9_Witness ==
    /\ pc = "crashed"
    /\ fs[temp_path(OutputPath)] = Partial(out)
    /\ before.kind = "object"
    /\ fs[OutputPath] = before
    /\ Obj(out) # before

\* C10: a load of a file that is missing, unreadable, not structured data or
\* not an object raises nothing, returns the empty document and leaves the
\* file as it was.
C10_LoadNeverFails ==
    (pc # "idle" /\ before.kind # "object")
        => /\ ~Raised(prev)
           /\ DOMAIN prev = {}
           /\ pc \in {"loaded"} => fs[OutputPath] = before

\* C35: when a call starts while a temporary file of an interrupted call is
\* there, what it loads is what it would load without that file; the write of
\* the temporary file replaces whatever that file held by the new document
\* and leaves output_path alone, and the rename that ends the call leaves the
\* new document in output_path and no temporary file.
C35_LeftoverTempHarmless ==
    [][/\ (pc = "idle" /\ pc' \in {"loaded", "done"} /\ exists(fs, temp_path(OutputPath)))
            => prev' = load_existing_data([EmptyDir EXCEPT ![OutputPath] = fs[OutputPath]])
       /\ (pc = "write" /\ pc' = "rename")
            => /\ fs'[temp_path(OutputPath)] = Obj(out)
               /\ fs'[OutputPath] = fs[OutputPath]
       /\ (pc = "rename" /\ pc' = "done")
            => /\ result' = "ok"
               /\ fs'[OutputPath] = Obj(out)
               /\ ~exists(fs', temp_path(OutputPath))
      ]_vars

\* A second call has loaded and merged while the beginning of the first
\* call's document is still in the temporary file.
C35_Witness ==
    /\ pc = "write"
    /\ runs = 2
    /\ fs[temp_path(OutputPath)].kind = "partial"
    /\ fs[temp_path(OutputPath)] # Partial(out)
    /\ before.kind = "object"
    /\ prev = before.doc

-----------------------------------------------------------------------------
(* SpecStored: _load_existing_data and execute applied to stored documents *)

\* A freePeriod timestamp that datetime.fromisoformat rejects ("bad").
BadStamp == <<98, 97, 100>>

\* Records a stored list can hold: well formed, without freePeriod, with
\* timestamps that are not timestamps, without id.
RawRecs ==
    {[id |-> "X", title |-> 0,
      freePeriod |-> [start |-> IsoFormat(0), end |-> IsoFormat(1)]],
     [id |-> "X", title |-> 0],
     [id |-> "Y", title |-> 0, freePeriod |-> [start |-> BadStamp, end |-> BadStamp]],
     [title |-> 0]}

\* Values a key of a stored JSON object can have: a list of records, or a
\* value that is not a list.
RawValues == {<<>>} \cup {<<r>> : r \in RawRecs} \cup {NotAList}

\* The JSON object that holds exactly the keys whose optional value is given.
RawDoc(opt) ==
    [k \in {x \in DOMAIN opt : opt[x] # None} |-> opt[k][1]]

RawDocs ==
    {RawDoc([past |-> p, currentFree |-> c, upcoming |-> u, updated |-> s]) :
        p \in {None} \cup {Some(v) : v \in RawValues},
        c \in {None} \cup {Some(v) : v \in RawValues},
        u \in {None, Some(NotAList), Some(<<[id |-> "Y", title |-> 0]>>)},
        s \in {None, Some(IsoFormat(0))}}

InitStored ==
    /\ fs \in {[EmptyDir EXCEPT ![OutputPath] = f] :
                  f \in {Missing, Unreadable, BadJson, NonObject}
                          \cup {Obj(d) : d \in RawDocs}}
    /\ now = 0
    /\ pc = "idle"
    /\ result = "none"
    /\ before = Missing
    /\ prev = Pending
    /\ fresh = <<>>
    /\ reads = <<>>
    /\ out = Pending
    /\ seen = {}
    /\ runs = 0
    /\ RatingIdle
    /\ PeriodIdle
    /\ RaceIdle

NextStored ==
    \/ Load
    \/ Execute

SpecStored == InitStored /\ [][NextStored]_vars

-----------------------------------------------------------------------------
(* Properties of the loader, checked under SpecStored *)

\* The value _load_existing_data must return under a list key of an object.
ListOrEmpty(data, k) ==
    IF k \in DOMAIN data /\ IsList(data[k]) THEN data[k] ELSE <<>>

\* C11: loading a JSON object gives past as stored when it is a list and []
\* otherwise, the same for currentFree whatever past was, every other key as
\* stored, no further key, and the lists with the records they held.
C11_LoadResetsListKeys ==
    (pc = "loaded" /\ before.kind = "object") =>
        LET data == before.doc
        IN  /\ DOMAIN prev = DOMAIN data \cup {"past", "currentFree"}
            /\ prev.past = ListOrEmpty(data, "past")
            /\ prev.currentFree = ListOrEmpty(data, "currentFree")
            /\ \A k \in DOMAIN data \ {"past", "currentFree"} : prev[k] = data[k]
            /\ fs[OutputPath] = before

C11_Witness ==
    /\ pc = "loaded"
    /\ before.kind = "object"
    /\ DOMAIN before.doc = {"past", "currentFree", "upcoming", "updated"}
    /\ before.doc.past = NotAList
    /\ before.doc.currentFree = <<[title |-> 0]>>
    /\ before.doc.upcoming = NotAList
    /\ prev.past = <<>>
    /\ prev.currentFree = <<[title |-> 0]>>

\* C12: whatever object, text or bytes output_path holds, neither the load
\* nor execute on the loaded document raises: a call of save that has left
\* execute holds a merged document.
C12_SaveToleratesStoredData ==
    /\ result \notin {"load_raised", "execute_raised"}
    /\ pc \in {"mkdir", "done"} => (~Raised(prev) /\ ~Raised(out))

-----------------------------------------------------------------------------
(* CompositeRatingAdapter.fetch_rating *)

\* The Rating with no score at all.
NoScores ==
    [epic |-> None, metacritic |-> None, opencritic |-> None, steam |-> None,
     additional_sources |-> EmptyDict]

\* What a call of fetcher.fetch_rating(game) can do: raise, return None, or
\* return a Rating.
FetcherRaises == [kind |-> "raise"]
FetcherNone == [kind |-> "none"]
FetcherRating(r) == [kind |-> "rating", rating |-> r]

\* The merge of one returned rating with first-found values overwritten.
merge_rating_last_wins(sc, r) ==
    [f \in RatingFields |-> IF r[f] # None THEN r[f] ELSE sc[f]]

\* Lines 42-49: a field still None takes the value of the returned rating.
merge_rating(sc, r) ==
    [f \in RatingFields |-> IF sc[f] = None /\ r[f] # None THEN r[f] ELSE sc[f]]

\* Lines 55-63 returning a Rating also when no field was found.
fetch_result_always_rating(sc) ==
    Some(Rating([NoScores EXCEPT !.epic = sc.epic, !.metacritic = sc.metacritic,
                                 !.opencritic = sc.opencritic, !.steam = sc.steam]))

\* Lines 55-63: None when all four locals are None, else Rating(...).
fetch_result(sc) ==
    IF \A f \in RatingFields : sc[f] = None THEN None
    ELSE Some(Rating([NoScores EXCEPT !.epic = sc.epic, !.metacritic = sc.metacritic,
                                      !.opencritic = sc.opencritic, !.steam = sc.steam]))

\* Ratings a fetcher returns: valid ones, 0 among the scores, and one that
\* carries an additional source only.
FetchedRatings ==
    {[NoScores EXCEPT !.epic = e, !.metacritic = m, !.opencritic = o, !.steam = st] :
        e \in {None, Some(0), Some(45)}, m \in {None, Some(0), Some(80), Some(90)},
        o \in {None, Some(88)}, st \in {None, Some(0), Some(70)}}
    \cup {[NoScores EXCEPT !.additional_sources = [igdb |-> 5]]}

FetcherOutcomes ==
    {FetcherRaises, FetcherNone} \cup {FetcherRating(r) : r \in FetchedRatings}

-----------------------------------------------------------------------------
(* SpecFetch: one call of CompositeRatingAdapter.fetch_rating *)

StoreIdle ==
    /\ fs = EmptyDir
    /\ now = 0
    /\ pc = "idle"
    /\ result = "none"
    /\ before = Missing
    /\ prev = Pending
    /\ fresh = <<>>
    /\ reads = <<>>
    /\ out = Pending
    /\ seen = {}
    /\ runs = 0

\* The state after lines 32-35: the four locals are None, no fetcher called.
InitFetch ==
    /\ StoreIdle
    /\ PeriodIdle
    /\ RaceIdle
    /\ fetchers \in SeqsUpTo(FetcherOutcomes, MaxFetchers)
    /\ scores = [f \in RatingFields |-> None]
    /\ called = <<>>
    /\ call = [op |-> "fetch_rating"]
    /\ ret = Pending
    /\ ctor = Pending
    /\ rating = Pending

\* Lines 37-49: the next fetcher returns; a Rating is always truthy.
FetchReturns ==
    /\ call = [op |-> "fetch_rating"]
    /\ Len(called) < Len(fetchers)
    /\ LET i == Len(called) + 1
       IN  /\ fetchers[i].kind # "raise"
           /\ called' = Append(called, i)
           /\ scores' = IF fetchers[i].kind = "rating"
                         THEN merge_rating(scores, fetchers[i].rating)
                         ELSE scores
    /\ UNCHANGED <<ctor, rating, call, ret, fetchers, storeVars, periodVars, raceVars>>

\* The next fetcher raises and the exception leaves fetch_rating.
FetchRaisesUncaught ==
    /\ call = [op |-> "fetch_rating"]
    /\ Len(called) < Len(fetchers)
    /\ LET i == Len(called) + 1
       IN  /\ fetchers[i].kind = "raise"
           /\ called' = Append(called, i)
    /\ call' = [op |-> "fetch_rating", raised |-> TRUE]
    /\ UNCHANGED <<ctor, rating, ret, fetchers, scores, storeVars, periodVars, raceVars>>

\* Lines 50-53: the next fetcher raises; except Exception, warning, continue.
FetchRaises ==
    /\ call = [op |-> "fetch_rating"]
    /\ Len(called) < Len(fetchers)
    /\ LET i == Len(called) + 1
       IN  /\ fetchers[i].kind = "raise"
           /\ called' = Append(called, i)
    /\ UNCHANGED <<ctor, rating, call, ret, fetchers, scores, storeVars, periodVars, raceVars>>

\* Lines 55-63, after the loop.
FetchDone ==
    /\ call = [op |-> "fetch_rating"]
    /\ Len(called) = Len(fetchers)
    /\ ret' = fetch_result(scores)
    /\ call' = [op |-> "fetch_rating", returned |-> TRUE]
    /\ UNCHANGED <<ctor, rating, fetchers, scores, called, storeVars, periodVars, raceVars>>

NextFetch ==
    \/ FetchReturns
    \/ FetchRaises
    \/ FetchDone

SpecFetch == InitFetch /\ [][NextFetch]_vars

-----------------------------------------------------------------------------
(* Properties of the composite adapter, checked under SpecFetch *)

FetchReturned == call = [op |-> "fetch_rating", returned |-> TRUE]

\* The positions among the first n fetchers that return a rating with field f set.
Suppliers(f, n) ==
    {i \in 1..n : fetchers[i].kind = "rating" /\ fetchers[i].rating[f] # None}

\* The value of field f from the earliest of the first n fetchers that
\* supplies it, None when none does.
FirstSupplied(f, n) ==
    IF Suppliers(f, n) = {} THEN None
    ELSE fetchers[CHOOSE i \in Suppliers(f, n) :
                    \A j \in Suppliers(f, n) : i <= j].rating[f]

\* C13: while fetch_rating runs, each of the four locals holds the value of
\* the earliest fetcher called so far that returned a rating with that field
\* set (0 included), and the Rating returned holds, for each field some
\* fetcher supplied, the value of the earliest such fetcher.
C13_FirstWriterWins ==
    /\ call.op = "fetch_rating" =>
            \A f \in RatingFields : scores[f] = FirstSupplied(f, Len(called))
    /\ FetchReturned =>
            \A f \in RatingFields :
                Suppliers(f, Len(fetchers)) # {}
                    => /\ ret # None
                       /\ ret[1][f] = FirstSupplied(f, Len(fetchers))

C13_Witness ==
    /\ FetchReturned
    /\ Len(fetchers) = 2
    /\ fetchers[1] = FetcherRating([NoScores EXCEPT !.metacritic = Some(80)])
    /\ fetchers[2] = FetcherRating([NoScores EXCEPT !.metacritic = Some(90),
                                                     !.steam = Some(70)])
    /\ ret = Some([NoScores EXCEPT !.metacritic = Some(80), !.steam = Some(70)])

NotRaising(o) == o.kind # "raise"

\* The locals after a loop over fetchers none of which raises.
RECURSIVE merged_scores(_)
merged_scores(fl) ==
    IF fl = <<>> THEN [f \in RatingFields |-> None]
    ELSE LET sc == merged_scores(SubSeq(fl, 1, Len(fl) - 1))
             o == fl[Len(fl)]
         IN  IF o.kind = "rating" THEN merge_rating(sc, o.rating) ELSE sc

\* C14: no exception of a fetcher leaves fetch_rating; when it returns, every
\* fetcher has been called once, in order, and the value returned is the one
\* the list without its raising fetchers gives.
C14_FetcherFailureIsolated ==
    /\ "raised" \notin DOMAIN call
    /\ FetchReturned =>
          /\ called = [i \in 1..Len(fetchers) |-> i]
          /\ ret = fetch_result(merged_scores(SelectSeq(fetchers, NotRaising)))

C14_Witness ==
    /\ FetchReturned
    /\ Len(fetchers) = 2
    /\ fetchers[1] = FetcherRaises
    /\ fetchers[2].kind = "rating"
    /\ called = <<1, 2>>
    /\ ret = Some([NoScores EXCEPT !.steam = Some(0)])

\* C15: fetch_rating returns None exactly when no fetcher returned a rating
\* with one of the four fields set, and otherwise a Rating, not the raised
\* marker, with at least one of the four fields set.
C15_AbsentIffNoField ==
    FetchReturned =>
        /\ ret = None <=> \A f \in RatingFields : Suppliers(f, Len(fetchers)) = {}
        /\ ret # None =>
              /\ ~Raised(ret[1])
              /\ \E f \in RatingFields : ret[1][f] # None

C15_Witness ==
    /\ FetchReturned
    /\ ret = None
    /\ Len(fetchers) = 2
    /\ fetchers[1] = FetcherRaises
    /\ fetchers[2] = FetcherRating([NoScores EXCEPT !.additional_sources = [igdb |-> 5]])

-----------------------------------------------------------------------------
(* SpecRating: Rating constructed from bounded arguments, then one method *)

\* Arguments of Rating(...): each field absent, on a boundary of its range,
\* inside it, or just outside; epic in tenths.
EpicArgs == {None} \cup {Some(v) : v \in {-1, 0, 25, 40, 50, 51}}
MetacriticArgs == {None} \cup {Some(v) : v \in {-1, 0, 50, 80, 100, 101}}
OpencriticArgs == {None} \cup {Some(v) : v \in {-1, 0, 49, 75, 100, 101}}
SteamArgs == {None} \cup {Some(v) : v \in {-1, 0, 50, 74, 100, 101}}

\* additional_sources: empty, an unregistered name with values inside and
\* outside 0..100, a registered name with a value inside and outside its range.
AdditionalArgs ==
    {EmptyDict, [igdb |-> 70], [igdb |-> 250], [igdb |-> -5],
     [epic |-> 40], [epic |-> 51]}

CtorArgs ==
    {[epic |-> e, metacritic |-> m, opencritic |-> o, steam |-> st,
      additional_sources |-> a] :
        e \in EpicArgs, m \in MetacriticArgs, o \in OpencriticArgs,
        st \in SteamArgs, a \in AdditionalArgs}

\* The weights argument of aggregate_score: None, or a dict over some names.
WeightArgs ==
    {None} \cup {Some(w) : w \in UNION {[S -> {0, 1, 3}] :
                                          S \in SUBSET {"epic", "metacritic", "steam"}}}

InitRating ==
    /\ StoreIdle
    /\ PeriodIdle
    /\ RaceIdle
    /\ ctor \in CtorArgs
    /\ rating = Pending
    /\ call = [op |-> "none"]
    /\ ret = Pending
    /\ fetchers = <<>>
    /\ scores = Pending
    /\ called = <<>>

Construct ==
    /\ call = [op |-> "none"]
    /\ rating = Pending
    /\ rating' = Rating(ctor)
    /\ call' = [op |-> "Rating"]
    /\ UNCHANGED <<ctor, ret, fetchers, scores, called, storeVars, periodVars, raceVars>>

\* A method can be called on a Rating whose construction did not raise.
Constructed == call = [op |-> "Rating"] /\ ~Raised(rating)

GetAllScores ==
    /\ Constructed
    /\ ret' = get_all_scores(rating)
    /\ call' = [op |-> "get_all_scores"]
    /\ UNCHANGED <<ctor, rating, fetchers, scores, called, storeVars, periodVars, raceVars>>

GetAllScoresNormalized ==
    /\ Constructed
    /\ ret' = get_all_scores_normalized(rating)
    /\ call' = [op |-> "get_all_scores_normalized"]
    /\ UNCHANGED <<ctor, rating, fetchers, scores, called, storeVars, periodVars, raceVars>>

AggregateScore ==
    /\ Constructed
    /\ \E w \in WeightArgs :
          /\ ret' = aggregate_score(rating, w)
          /\ call' = [op |-> "aggregate_score", weights |-> w]
    /\ UNCHANGED <<ctor, rating, fetchers, scores, called, storeVars, periodVars, raceVars>>

ScoreColor ==
    /\ Constructed
    /\ ret' = score_color(rating)
    /\ call' = [op |-> "score_color"]
    /\ UNCHANGED <<ctor, rating, fetchers, scores, called, storeVars, periodVars, raceVars>>

NextRating ==
    \/ Construct
    \/ GetAllScores
    \/ GetAllScoresNormalized
    \/ AggregateScore
    \/ ScoreColor

SpecRating == InitRating /\ [][NextRating]_vars

-----------------------------------------------------------------------------
(* Properties of Rating, checked under SpecRating *)

\* The registered range of a named source, epic in tenths.
InRange(name, v) == IF name = "epic" THEN 0 <= v /\ v <= 50 ELSE 0 <= v /\ v <= 100

\* C16: Rating(...) raises exactly when a field that is set, or an additional
\* source named like a field, lies outside its range (epic 0..5, the others
\* 0..100); otherwise the Rating holds the arguments as given.
C16_ConstructionFailsIffOutOfRange ==
    call.op # "none" =>
        /\ Raised(rating) <=>
              \/ \E f \in RatingFields : ctor[f] # None /\ ~InRange(f, ctor[f][1])
              \/ \E k \in DOMAIN ctor.additional_sources \cap RatingFields :
                     ~InRange(k, ctor.additional_sources[k])
        /\ ~Raised(rating) => rating = ctor

C16_Witness ==
    /\ call.op = "Rating"
    /\ ctor.epic = Some(50)
    /\ ctor.metacritic = Some(0)
    /\ ctor.opencritic = Some(100)
    /\ ctor.steam = None
    /\ ctor.additional_sources = [igdb |-> 250]
    /\ rating = ctor

\* C17: score_color classifies opencritic if set, else metacritic, else
\* steam, else aggregate_score(): green iff that score >= 75, yellow iff it
\* is >= 50 and < 75, red iff it is < 50.
C17_ScoreColor ==
    call.op = "score_color" =>
        LET q == IF rating.opencritic # None THEN Quotient(rating.opencritic[1], 1)
                 ELSE IF rating.metacritic # None THEN Quotient(rating.metacritic[1], 1)
                 ELSE IF rating.steam # None THEN Quotient(rating.steam[1], 1)
                 ELSE aggregate_score(rating, None)
        IN  /\ q.den > 0
            /\ ret = "green" <=> q.num >= 75 * q.den
            /\ ret = "yellow" <=> (q.num >= 50 * q.den /\ q.num < 75 * q.den)
            /\ ret = "red" <=> q.num < 50 * q.den

C17_Witness ==
    /\ call.op = "score_color"
    /\ rating.opencritic = Some(0)
    /\ rating.metacritic = Some(100)
    /\ rating.steam = Some(100)
    /\ ret = "red"

\* The present sources of the Rating with their normalised scores: the
\* fields that are set and the additional sources, epic on the 0..100 scale.
PresentScores ==
    [k \in {f \in RatingFields : rating[f] # None}
              \cup DOMAIN rating.additional_sources |->
        LET v == IF k \in DOMAIN rating.additional_sources
                 THEN rating.additional_sources[k] ELSE rating[k][1]
        IN  IF k = "epic" THEN 2 * v ELSE v]

\* C18: aggregate_score() is the mean of the normalised present scores;
\* aggregate_score(weights), for weights that name every present source, is
\* sum(score * weight) / sum(weight); either is 0.0 when no score is present
\* or the weights of the present sources sum to 0.
C18_AggregateScore ==
    call.op = "aggregate_score" =>
        LET n == PresentScores
            w == call.weights
        IN  /\ ret.den # 0
            /\ DOMAIN n = {} => ret = Zero
            /\ (w = None /\ DOMAIN n # {})
                  => ret.num * Cardinality(DOMAIN n) = ret.den * SumOf(n)
            /\ (w # None /\ DOMAIN n # {} /\ DOMAIN n \subseteq DOMAIN w[1])
                  => LET total == SumOf([k \in DOMAIN n |-> w[1][k]])
                     IN  IF total = 0 THEN ret = Zero
                         ELSE ret.num * total
                                = ret.den * SumOf([k \in DOMAIN n |-> n[k] * w[1][k]])

C18_Witness ==
    /\ call.op = "aggregate_score"
    /\ rating = [NoScores EXCEPT !.metacritic = Some(100), !.steam = Some(50)]
    /\ call.weights = Some([metacritic |-> 3, steam |-> 1])
    /\ ret.num * 2 = 175 * ret.den

\* C19, as stated: in aggregate_score(weights) a present source that weights
\* does not name weighs 1: the result is sum(score * weight) / sum(weight)
\* with weight 1 for such a source.
C19_MissingWeightIsOne ==
    (call.op = "aggregate_score" /\ call.weights # None /\ DOMAIN PresentScores # {}) =>
        LET n == PresentScores
            w == call.weights[1]
            total == SumOf([k \in DOMAIN n |-> Get(w, k, 1)])
        IN  /\ ret.den # 0
            /\ IF total = 0 THEN ret = Zero
               ELSE ret.num * total
                      = ret.den * SumOf([k \in DOMAIN n |-> n[k] * Get(w, k, 1)])

\* C19: in aggregate_score(weights) a present source that weights does not
\* name weighs 0: it adds to neither sum, and the result is 0.0 when the
\* sources that weights names are all absent or their weights sum to 0.
C19_MissingWeightIsZero ==
    (call.op = "aggregate_score" /\ call.weights # None /\ DOMAIN PresentScores # {}) =>
        LET n == PresentScores
            w == call.weights[1]
            named == DOMAIN n \cap DOMAIN w
            total == SumOf([k \in named |-> w[k]])
        IN  /\ ret.den # 0
            /\ IF total = 0 THEN ret = Zero
               ELSE ret.num * total = ret.den * SumOf([k \in named |-> n[k] * w[k]])

C19_Witness ==
    /\ call.op = "aggregate_score"
    /\ rating = [NoScores EXCEPT !.metacritic = Some(100), !.steam = Some(50)]
    /\ call.weights = Some([metacritic |-> 3])
    /\ ret.num = 100 * ret.den

\* C20: get_all_scores_normalized has the keys of get_all_scores, epic
\* mapped to value / 5 * 100 and every other source to its value, and the
\* value of each of the four registered sources within 0..100.
C20_AllScoresNormalized ==
    call.op = "get_all_scores_normalized" =>
        LET all == get_all_scores(rating)
        IN  /\ DOMAIN ret = DOMAIN all
            /\ \A k \in DOMAIN all :
                  /\ k = "epic" => ret[k] * 5 * 10 = all[k] * 100
                  /\ k # "epic" => ret[k] = all[k]
                  /\ k \in RatingFields => (0 <= ret[k] /\ ret[k] <= 100)

C20_Witness ==
    /\ call.op = "get_all_scores_normalized"
    /\ rating.epic = Some(25)
    /\ rating.steam = Some(74)
    /\ rating.additional_sources = [igdb |-> 250]
    /\ ret = [epic |-> 50, steam |-> 74, igdb |-> 250]

-----------------------------------------------------------------------------
(* SpecPeriod: a FreePeriod constructed from bounded arguments, then the *)
(* predicates of FreePeriod and Game evaluated as the clock advances      *)

\* FreePeriod(start=..., end=...): __post_init__ raises ValueError.
FreePeriod(start, end) ==
    IF ~FreePeriodOk(start, end) THEN ValueError
    ELSE [start |-> start, end |-> end]

PeriodArgs == {[start |-> s, end |-> e] : s, e \in 0..MaxTime}

InitPeriod ==
    /\ StoreIdle
    /\ RaceIdle
    /\ ctor \in PeriodArgs
    /\ period = Pending
    /\ probes = {}
    /\ rating = Pending
    /\ call = [op |-> "none"]
    /\ ret = Pending
    /\ fetchers = <<>>
    /\ scores = Pending
    /\ called = <<>>

ConstructPeriod ==
    /\ period = Pending
    /\ period' = FreePeriod(ctor.start, ctor.end)
    /\ call' = [op |-> "FreePeriod"]
    /\ UNCHANGED <<ctor, rating, ret, fetchers, scores, called, probes, storeVars, raceVars>>

\* A method can be called on a FreePeriod whose construction did not raise.
PeriodConstructed == "start" \in DOMAIN period

\* The Game that carries the constructed window.
GameOf(p) == Game("X", 0, <<p.start, p.end>>)

Probe(op, value) ==
    /\ probes' = probes \cup {[op |-> op, at |-> now, value |-> value]}
    /\ UNCHANGED <<ratingVars, period, storeVars, raceVars>>

IsActive ==
    /\ PeriodConstructed
    /\ Probe("is_active", is_active(period.start, period.end, now))

IsCurrentlyFree ==
    /\ PeriodConstructed
    /\ Probe("is_currently_free", is_currently_free(GameOf(period), now))

IsUpcoming ==
    /\ PeriodConstructed
    /\ Probe("is_upcoming", is_upcoming(GameOf(period), now))

NextPeriod ==
    \/ Tick
    \/ ConstructPeriod
    \/ IsActive
    \/ IsCurrentlyFree
    \/ IsUpcoming

SpecPeriod == InitPeriod /\ [][NextPeriod]_vars

-----------------------------------------------------------------------------
(* Properties of FreePeriod and Game, checked under SpecPeriod *)

\* C21: FreePeriod(start, end) raises exactly when start >= end, otherwise
\* it holds start and end as given; and is_active at an instant is true
\* exactly when start <= instant <= end.
C21_WindowValidity ==
    period # Pending =>
        /\ Raised(period) <=> ctor.start >= ctor.end
        /\ ~Raised(period) => period = [start |-> ctor.start, end |-> ctor.end]
        /\ \A p \in probes :
              p.op = "is_active"
                => (p.value <=> (ctor.start <= p.at /\ p.at <= ctor.end))

C21_Witness ==
    /\ PeriodConstructed
    /\ \E p, q, r \in probes :
          /\ p.op = "is_active" /\ p.at = period.start /\ p.value
          /\ q.op = "is_active" /\ q.at = period.end /\ q.value
          /\ r.op = "is_active" /\ r.at = period.end + 1 /\ ~r.value

\* C27: is_currently_free and is_upcoming evaluated at the same instant are
\* never both true, and when both are false the instant is after the end of
\* the window.
C27_ActiveUpcomingExclusive ==
    \A a, u \in probes :
        (a.op = "is_currently_free" /\ u.op = "is_upcoming" /\ a.at = u.at)
            => /\ ~(a.value /\ u.value)
               /\ (~a.value /\ ~u.value) => a.at > period.end

C27_Witness ==
    \E a, u, b, v \in probes :
        /\ a.op = "is_currently_free" /\ u.op = "is_upcoming" /\ a.at = u.at
        /\ ~a.value /\ ~u.value
        /\ b.op = "is_currently_free" /\ v.op = "is_upcoming" /\ b.at = v.at
        /\ b.at = period.start /\ b.value /\ ~v.value

-----------------------------------------------------------------------------
(* JsonFileRepository: the rating backfill of past records *)

\* The "rating" object written for a Rating (lines 153-159, as lines 88-94).
rating_to_dict(r) ==
    [epic |-> r.epic, metacritic |-> r.metacritic, opencritic |-> r.opencritic,
     steam |-> r.steam, scoreColor |-> score_color(r)]

\* enriched_map = {g.id: g for g in enriched_games if g.rating}: its keys, and
\* the game under a key (the last one of the list that has a rating).
EnrichedIds(games) ==
    {games[i].id : i \in {j \in 1..Len(games) : games[j].rating # None}}

EnrichedGame(games, id) ==
    games[CHOOSE i \in 1..Len(games) :
            /\ games[i].id = id /\ games[i].rating # None
            /\ \A j \in (i + 1)..Len(games) :
                  ~(games[j].id = id /\ games[j].rating # None)]

\* The record written in place of a past record: the serialised game.
patch_record_replaced(game_dict, game) == game_to_dict(game)

\* The patch that stores a rating object with no key.
patch_record_empty(game_dict, game) == SetKey(game_dict, "rating", EmptyDict)

\* game_dict["rating"] = {...}, lines 152-159.
patch_record(game_dict, game) ==
    SetKey(game_dict, "rating", rating_to_dict(game.rating[1]))

\* game_dict.get("id") in enriched_map, lines 150-151.
Matches(game_dict, games) ==
    "id" \in DOMAIN game_dict /\ game_dict.id \in EnrichedIds(games)

\* The loop of lines 149-160 on data.get("past", []).
patch_past(past, games) ==
    [i \in 1..Len(past) |->
        IF Matches(past[i], games)
        THEN patch_record(past[i], EnrichedGame(games, past[i].id))
        ELSE past[i]]

updated_count(past, games) ==
    Cardinality({i \in 1..Len(past) : Matches(past[i], games)})

\* The test of line 162 that lets every call write.
should_write_always(count) == TRUE

\* if updated_count > 0, line 162.
should_write(count) == count > 0

\* The instant of the default timestamp "2000-01-01T00:00:00+00:00".
DefaultInstant == 0

\* The title of a Game made from a record without the payload fields.
NoTitle == -1

\* bool(game_dict.get("rating")): the key is there and the object not empty.
HasRating(game_dict) ==
    "rating" \in DOMAIN game_dict /\ DOMAIN game_dict.rating # {}

\* _dict_to_game: None when anything raises (lines 123-124), which is when
\* freePeriod is not as expected, a timestamp is not one, or FreePeriod
\* rejects the window.
dict_to_game(game_dict) ==
    LET free_period_data == Get(game_dict, "freePeriod", EmptyDict)
        start == IF "start" \in DOMAIN free_period_data
                 THEN fromisoformat(free_period_data.start) ELSE Some(DefaultInstant)
        end == IF "end" \in DOMAIN free_period_data
               THEN fromisoformat(free_period_data.end) ELSE Some(DefaultInstant)
    IN  IF start = None \/ end = None THEN None
        ELSE IF Raised(FreePeriod(start[1], end[1])) THEN None
        ELSE Some([id |-> Get(game_dict, "id", ""),
                   title |-> Get(game_dict, "title", NoTitle),
                   start |-> start[1], end |-> end[1], rating |-> None])

\* The loop of lines 131-136 without the test of lines 132-133.
RECURSIVE games_of_all(_)
games_of_all(past) ==
    IF past = <<>> THEN <<>>
    ELSE LET game == dict_to_game(Head(past))
         IN  (IF game # None THEN <<game[1]>> ELSE <<>>) \o games_of_all(Tail(past))

\* The loop of lines 131-136.
RECURSIVE games_without_rating(_)
games_without_rating(past) ==
    IF past = <<>> THEN <<>>
    ELSE LET game_dict == Head(past)
             game == IF HasRating(game_dict) THEN None ELSE dict_to_game(game_dict)
         IN  (IF game # None THEN <<game[1]>> ELSE <<>>)
                \o games_without_rating(Tail(past))

load_past_games_without_rating(fsv) ==
    LET data == load_existing_data(fsv)
    IN  IF Raised(data) THEN data
        ELSE games_without_rating(Get(data, "past", <<>>))

-----------------------------------------------------------------------------
(* SpecPatch: load_past_games_without_rating and update_past_ratings on    *)
(* stored documents                                                        *)

\* Two valid Ratings: metacritic 80 (green), and epic 4.5 with steam 40 (red).
PatchRatings ==
    {[NoScores EXCEPT !.metacritic = Some(80)],
     [NoScores EXCEPT !.epic = Some(45), !.steam = Some(40)]}

\* Past records of a stored document: with and without a rating, with an
\* empty rating, without freePeriod, with timestamps that are not
\* timestamps, without id.
PatchRecs ==
    LET window == [start |-> IsoFormat(0), end |-> IsoFormat(1)]
    IN  {[id |-> "X", title |-> 0, freePeriod |-> window],
         [id |-> "X", title |-> 0, freePeriod |-> window,
          rating |-> rating_to_dict([NoScores EXCEPT !.steam = Some(60)])],
         [id |-> "Y", title |-> 0, freePeriod |-> window, rating |-> EmptyDict],
         [id |-> "Y", title |-> 0],
         [id |-> "Y", title |-> 0, freePeriod |-> [start |-> BadStamp, end |-> BadStamp]],
         [title |-> 0, freePeriod |-> [end |-> IsoFormat(2)]]}

PatchDocs ==
    {RawDoc([past |-> Some(p), currentFree |-> o[1], upcoming |-> o[2],
             updated |-> o[3]]) :
        p \in SeqsUpTo(PatchRecs, MaxPrev),
        o \in {<<None, None, None>>,
                <<Some(<<[id |-> "Y", title |-> 0]>>), Some(<<[id |-> "X", title |-> 0]>>),
                  Some(IsoFormat(0))>>,
                <<Some(NotAList), Some(<<>>), Some(IsoFormat(0))>>}}

\* Games handed to update_past_ratings: fetched title, with or without Rating.
EnrichedGames ==
    {[Game(id, 1, <<0, 1>>) EXCEPT !.rating = r] :
        id \in Ids, r \in {None} \cup {Some(x) : x \in PatchRatings}}

InitPatch ==
    /\ fs \in {[EmptyDir EXCEPT ![OutputPath] = f] :
                  f \in {Missing, BadJson} \cup {Obj(d) : d \in PatchDocs}}
    /\ now = 1
    /\ pc = "idle"
    /\ result = "none"
    /\ before = Missing
    /\ prev = Pending
    /\ fresh = <<>>
    /\ reads = <<>>
    /\ out = Pending
    /\ seen = {}
    /\ runs = 0
    /\ RatingIdle
    /\ PeriodIdle
    /\ RaceIdle

\* What a call of update_past_ratings computes before it writes: the loaded
\* document, the count, and the document it would write.
PatchOf(fsv, games, t) ==
    LET data == load_existing_data(fsv)
        past == Get(data, "past", <<>>)
    IN  [data |-> data,
         count |-> updated_count(past, games),
         doc |-> SetKey(SetKey(data, "past", patch_past(past, games)),
                        "updated", IsoFormat(t))]

\* update_past_ratings returns: lines 142-143, or 145-166 with a write that
\* succeeds or no write at all.
UpdatePastRatings ==
    /\ runs < MaxRuns
    /\ runs' = runs + 1
    /\ before' = fs[OutputPath]
    /\ call' = [op |-> "update_past_ratings"]
    /\ result' = "ok"
    /\ \E games \in SeqsUpTo(EnrichedGames, MaxEnriched) :
          /\ fresh' = games
          /\ IF games = <<>>
             THEN /\ ret' = 0
                  /\ prev' = Pending
                  /\ out' = Pending
                  /\ fs' = fs
             ELSE \E p \in {PatchOf(fs, games, now)} :
                    /\ prev' = p.data
                    /\ ret' = p.count
                    /\ IF should_write(p.count)
                       THEN /\ out' = p.doc
                            /\ fs' = rename(write_text(fs, temp_path(OutputPath), p.doc),
                                            temp_path(OutputPath), OutputPath)
                       ELSE /\ out' = Pending
                            /\ fs' = fs
    /\ UNCHANGED <<reads, now, pc, seen, ctor, rating, fetchers, scores, called,
                   periodVars, raceVars>>

\* update_past_ratings reaches line 164 and _write_to_file raises: the except
\* branch removes the temporary file and the exception leaves the call.
UpdatePastRatingsWriteFails ==
    /\ runs < MaxRuns
    /\ runs' = runs + 1
    /\ before' = fs[OutputPath]
    /\ call' = [op |-> "update_past_ratings"]
    /\ result' = "write_raised"
    /\ ret' = Pending
    /\ \E games \in SeqsUpTo(EnrichedGames, MaxEnriched) \ {<<>>} :
          \E p \in {PatchOf(fs, games, now)} :
            /\ should_write(p.count)
            /\ fresh' = games
            /\ prev' = p.data
            /\ out' = p.doc
            /\ fs' = cleanup(write_text_partial(fs, temp_path(OutputPath), p.doc),
                             temp_path(OutputPath))
    /\ UNCHANGED <<reads, now, pc, seen, ctor, rating, fetchers, scores, called,
                   periodVars, raceVars>>

LoadPastGamesWithoutRating ==
    /\ runs < MaxRuns
    /\ runs' = runs + 1
    /\ before' = fs[OutputPath]
    /\ call' = [op |-> "load_past_games_without_rating"]
    /\ prev' = load_existing_data(fs)
    /\ result' = IF Raised(prev') THEN "load_raised" ELSE "ok"
    /\ ret' = load_past_games_without_rating(fs)
    /\ fresh' = <<>>
    /\ out' = Pending
    /\ UNCHANGED <<fs, reads, now, pc, seen, ctor, rating, fetchers, scores, called,
                   periodVars, raceVars>>

NextPatch ==
    \/ UpdatePastRatings
    \/ UpdatePastRatingsWriteFails
    \/ LoadPastGamesWithoutRating

SpecPatch == InitPatch /\ [][NextPatch]_vars

-----------------------------------------------------------------------------
(* Properties of the rating backfill, checked under SpecPatch *)

\* The past list of the document the call loaded (none: no load, no list).
LoadedPast == IF prev = Pending THEN <<>> ELSE Get(prev, "past", <<>>)

\* The positions of the loaded past whose id is the id of a game of the
\* argument that carries a Rating.
PatchedPositions ==
    {i \in 1..Len(LoadedPast) :
        /\ "id" \in DOMAIN LoadedPast[i]
        /\ \E j \in 1..Len(fresh) :
              fresh[j].rating # None /\ fresh[j].id = LoadedPast[i].id}

\* C22: update_past_ratings returns the number of past records it patched;
\* it hands a document with a new updated stamp to _write_to_file exactly
\* when that number is at least 1, and the document is then in output_path;
\* when the number is 0, output_path and its directory are as they were.
C22_PatchWritesIffPatched ==
    call.op = "update_past_ratings" =>
        LET n == Cardinality(PatchedPositions)
        IN  /\ result = "ok" => ret = n
            /\ out # Pending <=> n >= 1
            /\ n >= 1 => out.updated = IsoFormat(now)
            /\ (n >= 1 /\ result = "ok") => fs[OutputPath] = Obj(out)
            /\ n = 0 => (result = "ok" /\ fs[OutputPath] = before)
            /\ ~exists(fs, temp_path(OutputPath))

C22_Witness ==
    /\ call.op = "update_past_ratings"
    /\ result = "ok"
    /\ ret = 2
    /\ before.kind = "object"
    /\ "updated" \in DOMAIN before.doc
    /\ before.doc.updated # out.updated
    /\ fs[OutputPath] = Obj(out)

\* C23: the document update_past_ratings writes has the keys and values of
\* the loaded document except updated and past; its past has the length of
\* the loaded past and, position by position, the same record except for
\* the key rating, and the very same record where the id matches no game of
\* the argument that carries a Rating.
C23_PatchFrame ==
    (call.op = "update_past_ratings" /\ out # Pending) =>
        /\ DOMAIN out = DOMAIN prev \cup {"updated"}
        /\ \A k \in DOMAIN prev \ {"past", "updated"} : out[k] = prev[k]
        /\ Len(out.past) = Len(prev.past)
        /\ \A i \in 1..Len(prev.past) :
              LET a == prev.past[i]
                  b == out.past[i]
              IN  /\ DOMAIN b \ {"rating"} = DOMAIN a \ {"rating"}
                  /\ \A f \in DOMAIN a \ {"rating"} : b[f] = a[f]
                  /\ i \notin PatchedPositions => b = a
        /\ result = "ok" => fs[OutputPath] = Obj(out)

C23_Witness ==
    /\ call.op = "update_past_ratings"
    /\ result = "ok"
    /\ fs[OutputPath] = Obj(out)
    /\ prev.currentFree # <<>>
    /\ prev.upcoming # <<>>
    /\ Len(prev.past) = 2
    /\ PatchedPositions = {1}
    /\ HasRating(prev.past[1])
    /\ out.past[1].rating # prev.past[1].rating
    /\ out.past[1].title = prev.past[1].title
    /\ out.past[2] = prev.past[2]

\* The positions of the loaded past whose record has no rating and from
\* which _dict_to_game makes a Game.
LoadablePositions ==
    {i \in 1..Len(LoadedPast) :
        ~HasRating(LoadedPast[i]) /\ dict_to_game(LoadedPast[i]) # None}

\* C24: load_past_games_without_rating raises nothing and returns, in the
\* order of the past list, the Game of every past record that has no rating
\* and from which a Game can be made, and no other; every returned Game has
\* a window with start before end and no rating; the files are untouched.
C24_LoadPastWithoutRating ==
    call.op = "load_past_games_without_rating" =>
        /\ result = "ok"
        /\ Len(ret) = Cardinality(LoadablePositions)
        /\ \A i \in LoadablePositions :
              ret[Cardinality({j \in LoadablePositions : j <= i})]
                  = dict_to_game(LoadedPast[i])[1]
        /\ \A k \in 1..Len(ret) : ret[k].start < ret[k].end /\ ret[k].rating = None
        /\ fs[OutputPath] = before
        /\ ~exists(fs, temp_path(OutputPath))

C24_Witness ==
    /\ call.op = "load_past_games_without_rating"
    /\ Len(LoadedPast) = 2
    /\ past_sort_key(LoadedPast[1]) = BadStamp
    /\ ~HasRating(LoadedPast[2])
    /\ "id" \in DOMAIN LoadedPast[2]
    /\ Len(ret) = 1
    /\ ret[1].id = LoadedPast[2].id
    /\ before.kind = "object"

\* The past list a load of output_path gives in the current state.
StoredPast ==
    LET data == load_existing_data(fs)
    IN  IF Raised(data) THEN <<>> ELSE Get(data, "past", <<>>)

\* C32: a stored past record that has a rating keeps one through every call
\* of the backfill; when load_past_games_without_rating runs after an
\* update_past_ratings that returned, every record that call patched is
\* stored with a rating and no returned Game has its id, and every record it
\* did not patch that had no rating and gives a Game is still returned.
C32_BackfillProgress ==
    [][/\ \A i \in 1..Len(StoredPast) :
             HasRating(StoredPast[i])
                 => (i <= Len(StoredPast') /\ HasRating(StoredPast'[i]))
       /\ (/\ call.op = "update_past_ratings"
           /\ result = "ok"
           /\ call'.op = "load_past_games_without_rating") =>
              /\ \A i \in PatchedPositions :
                    /\ HasRating(StoredPast[i])
                    /\ \A k \in 1..Len(ret') : ret'[k].id # LoadedPast[i].id
              /\ \A i \in LoadablePositions \ PatchedPositions :
                    \E k \in 1..Len(ret') : ret'[k] = dict_to_game(LoadedPast[i])[1]
      ]_vars

C32_Witness ==
    /\ call.op = "load_past_games_without_rating"
    /\ runs = 2
    /\ before.kind = "object"
    /\ "updated" \in DOMAIN before.doc
    /\ before.doc.updated = IsoFormat(now)
    /\ Len(LoadedPast) = 2
    /\ HasRating(LoadedPast[1])
    /\ LoadedPast[1].rating = rating_to_dict([NoScores EXCEPT !.metacritic = Some(80)])
    /\ ~HasRating(LoadedPast[2])
    /\ "id" \in DOMAIN LoadedPast[1]
    /\ "id" \in DOMAIN LoadedPast[2]
    /\ Len(ret) = 1
    /\ ret[1].id = LoadedPast[2].id
    /\ ret[1].id # LoadedPast[1].id

-----------------------------------------------------------------------------
(* SpecEnrich: one call of EnrichRatingsUseCase.execute                    *)

\* replace(game, rating=rating) that keeps the rating the game had when the
\* fetcher found none.
replace_rating_if_found(game, r) ==
    IF r = None THEN game ELSE [game EXCEPT !.rating = r]

\* dataclasses.replace(game, rating=rating), line 18: a new Game whose fields
\* are those of game with rating replaced.
replace_rating(game, r) == [game EXCEPT !.rating = r]

\* What rating_fetcher.fetch_rating(game) hands back, line 17.
fetch_rating_value(outcome) ==
    IF outcome.kind = "rating" THEN Some(outcome.rating) ELSE None

\* Lines 14-21: the list of the replaced games, in the order of the input;
\* found[i] is what the fetcher does for games[i].
enriched_games(games, found) ==
    [i \in 1..Len(games) |-> replace_rating(games[i], fetch_rating_value(found[i]))]

\* Games handed to the enrichment: fetched games carry no rating, games that
\* went through an enrichment before may carry one.
EnrichInputs ==
    SeqsUpTo(EnrichedGames \cup {Game(id, 2, <<1, 2>>) : id \in Ids}, MaxEnriched)

EnrichOutcomes ==
    {FetcherRaises, FetcherNone} \cup {FetcherRating(r) : r \in PatchRatings}

\* fresh is the list object the caller holds, fetchers[i] what fetch_rating
\* does for the game at position i.
InitEnrich ==
    /\ fresh \in EnrichInputs
    /\ fetchers \in [1..Len(fresh) -> EnrichOutcomes]
    /\ fs = EmptyDir
    /\ now = 0
    /\ pc = "idle"
    /\ result = "none"
    /\ before = Missing
    /\ prev = Pending
    /\ reads = <<>>
    /\ out = Pending
    /\ seen = {}
    /\ runs = 0
    /\ ctor = Pending
    /\ rating = Pending
    /\ call = [op |-> "none"]
    /\ ret = Pending
    /\ scores = Pending
    /\ called = <<>>
    /\ PeriodIdle
    /\ RaceIdle

\* execute(games) returns, lines 13-22; ctor keeps the value the argument had
\* when the call started. Neither the list nor a game of it is assigned to.
EnrichExecute ==
    /\ call = [op |-> "none"]
    /\ \A i \in 1..Len(fresh) : fetchers[i] # FetcherRaises
    /\ ctor' = fresh
    /\ call' = [op |-> "enrich_ratings"]
    /\ ret' = enriched_games(fresh, fetchers)
    /\ result' = "ok"
    /\ UNCHANGED <<fresh, prev, reads, out, fs, now, pc, before, seen, runs,
                   rating, fetchers, scores, called, periodVars, raceVars>>

\* fetch_rating raises for some game: the exception leaves execute, which
\* returns nothing.
EnrichRaises ==
    /\ call = [op |-> "none"]
    /\ \E i \in 1..Len(fresh) : fetchers[i] = FetcherRaises
    /\ ctor' = fresh
    /\ call' = [op |-> "enrich_ratings"]
    /\ ret' = Pending
    /\ result' = "fetch_raised"
    /\ UNCHANGED <<fresh, prev, reads, out, fs, now, pc, before, seen, runs,
                   rating, fetchers, scores, called, periodVars, raceVars>>

NextEnrich == EnrichExecute \/ EnrichRaises

SpecEnrich == InitEnrich /\ [][NextEnrich]_vars

\* C31: the list the enrichment returns has the length, the order and the ids
\* of its input, each returned game has the fields of the input game at its
\* position except rating, which is what the fetcher returned for that game
\* (absent when it returned none), and the input list is as it was.
C31_EnrichCopyOnWrite ==
    (call = [op |-> "enrich_ratings"] /\ result = "ok") =>
        /\ Len(ret) = Len(ctor)
        /\ fresh = ctor
        /\ \A i \in 1..Len(ctor) :
              /\ ret[i].id = ctor[i].id
              /\ ret[i].title = ctor[i].title
              /\ ret[i].start = ctor[i].start
              /\ ret[i].end = ctor[i].end
              /\ DOMAIN ret[i] = DOMAIN ctor[i]
              /\ ret[i].rating = IF fetchers[i].kind = "rating"
                                 THEN <<fetchers[i].rating>> ELSE <<>>

C31_Witness ==
    /\ call = [op |-> "enrich_ratings"]
    /\ result = "ok"
    /\ Len(ret) = 2
    /\ ctor[1].rating # None
    /\ ret[1].rating = None
    /\ ctor[2].rating = None
    /\ ret[2].rating # None
    /\ ret[1].id = ret[2].id

-----------------------------------------------------------------------------
(* SpecRecord: _game_to_dict followed by _dict_to_game                     *)

\* Games of the domain: any id, payload and valid window, with or without a
\* Rating.
RecordGames ==
    {[Game(id, t, w) EXCEPT !.rating = r] :
        id \in Ids, t \in 1..MaxGames, w \in Windows,
        r \in {None} \cup {Some(x) : x \in FetchedRatings}}

InitRecord ==
    /\ fresh \in {<<g>> : g \in RecordGames}
    /\ call = [op |-> "none"]
    /\ fs = EmptyDir
    /\ now = 0
    /\ pc = "idle"
    /\ result = "none"
    /\ before = Missing
    /\ prev = Pending
    /\ reads = <<>>
    /\ out = Pending
    /\ seen = {}
    /\ runs = 0
    /\ ctor = Pending
    /\ rating = Pending
    /\ ret = Pending
    /\ fetchers = <<>>
    /\ scores = Pending
    /\ called = <<>>
    /\ PeriodIdle
    /\ RaceIdle

\* _game_to_dict(game), lines 71-96.
GameToDict ==
    /\ call = [op |-> "none"]
    /\ out' = game_to_dict(fresh[1])
    /\ call' = [op |-> "game_to_dict"]
    /\ UNCHANGED <<prev, fresh, reads, fs, now, pc, result, before, seen, runs,
                   ctor, rating, ret, fetchers, scores, called, periodVars, raceVars>>

\* _dict_to_game(game_dict) on the record just made, lines 98-124.
DictToGame ==
    /\ call = [op |-> "game_to_dict"]
    /\ ret' = dict_to_game(out)
    /\ call' = [op |-> "dict_to_game"]
    /\ UNCHANGED <<prev, fresh, reads, out, fs, now, pc, result, before, seen, runs,
                   ctor, rating, fetchers, scores, called, periodVars, raceVars>>

NextRecord == GameToDict \/ DictToGame

SpecRecord == InitRecord /\ [][NextRecord]_vars

\* C37: the record made from a game holds a rating object exactly when the
\* game has a Rating, and the game made back from that record exists, has the
\* id, the payload fields and the window of the game, and has no Rating.
C37_RecordRoundTrip ==
    /\ call.op \in {"game_to_dict", "dict_to_game"} =>
          ("rating" \in DOMAIN out <=> fresh[1].rating # None)
    /\ call.op = "dict_to_game" =>
          /\ Len(ret) = 1
          /\ ret[1].id = fresh[1].id
          /\ ret[1].title = fresh[1].title
          /\ ret[1].start = fresh[1].start
          /\ ret[1].end = fresh[1].end
          /\ ret[1].rating = None

C37_Witness ==
    /\ call.op = "dict_to_game"
    /\ fresh[1].rating # None
    /\ "rating" \in DOMAIN out
    /\ Len(ret) = 1
    /\ ret[1].rating = None
    /\ ret[1].start = 1
    /\ ret[1].end = 2
    /\ out.freePeriod.start # out.freePeriod.end

-----------------------------------------------------------------------------
(* SpecMain: runs of main(), the entry point (main.py)                     *)

\* The test of line 49 that never finds the fetched list empty.
no_games_never(games) == FALSE

\* if not games, line 49.
no_games(games) == games = <<>>

\* The test of line 62 that lets the backfill run on an empty list.
has_past_games_always(past_games) == TRUE

\* if past_games, line 62.
has_past_games(past_games) == past_games # <<>>

\* enrich_games, lines 24-29: an empty list is handed back as it is.
enrich_games(games, found) ==
    IF games = <<>> THEN games ELSE enriched_games(games, found)

\* What the composite adapter returns for a game: None or a Rating; it lets
\* no exception out.
AdapterOutcomes == {FetcherNone} \cup {FetcherRating(r) : r \in PatchRatings}

\* Lists fetch_free_games returns: games without a Rating.
FetchedLists == {g \in FreshLists : Len(g) <= MaxGames}

\* A document of an earlier run: X in currentFree, Y in past, no ratings.
MainDoc ==
    LET window == [start |-> IsoFormat(0), end |-> IsoFormat(1)]
    IN  Doc(IsoFormat(0), <<[id |-> "X", title |-> 0, freePeriod |-> window]>>, <<>>,
            <<[id |-> "Y", title |-> 0, freePeriod |-> window]>>)

InitMain ==
    /\ fs \in {EmptyDir, [EmptyDir EXCEPT ![OutputPath] = Obj(MainDoc)]}
    /\ now = 0
    /\ pc = "idle"
    /\ result = "none"
    /\ before = Missing
    /\ prev = Pending
    /\ fresh = <<>>
    /\ reads = <<>>
    /\ out = Pending
    /\ seen = {}
    /\ runs = 0
    /\ RatingIdle
    /\ PeriodIdle
    /\ RaceIdle

\* Line 48: fetch_free_games returns; lines 49-51: main returns when the list
\* is empty.  called lists the repository methods this run has called.
MainFetch ==
    /\ pc = "idle"
    /\ runs < MaxRuns
    /\ runs' = runs + 1
    /\ \E games \in FetchedLists :
          /\ fresh' = games
          /\ IF no_games(games)
             THEN pc' = "idle" /\ result' = "no_games"
             ELSE pc' = "enrich" /\ result' = "none"
    /\ before' = fs[OutputPath]
    /\ called' = <<>>
    /\ call' = [op |-> "fetch_free_games"]
    /\ prev' = Pending
    /\ out' = Pending
    /\ ret' = <<>>
    /\ reads' = <<>>
    /\ UNCHANGED <<fs, now, seen, ctor, rating, fetchers, scores, periodVars, raceVars>>

\* fetch_free_games raises: the exception leaves main.
MainFetchRaises ==
    /\ pc = "idle"
    /\ runs < MaxRuns
    /\ runs' = runs + 1
    /\ fresh' = <<>>
    /\ result' = "fetch_raised"
    /\ before' = fs[OutputPath]
    /\ called' = <<>>
    /\ call' = [op |-> "fetch_free_games"]
    /\ prev' = Pending
    /\ out' = Pending
    /\ ret' = <<>>
    /\ reads' = <<>>
    /\ UNCHANGED <<fs, now, pc, seen, ctor, rating, fetchers, scores, periodVars, raceVars>>

\* Line 54: games = enrich_games(games, rating_adapter).
MainEnrich ==
    /\ pc = "enrich"
    /\ \E found \in [1..Len(fresh) -> AdapterOutcomes] :
          fresh' = enrich_games(fresh, found)
    /\ pc' = "save"
    /\ UNCHANGED <<prev, reads, out, fs, now, result, before, seen, runs,
                   ctor, rating, call, ret, fetchers, scores, called, periodVars, raceVars>>

\* Line 56: repository.save(games) returns; the clock stands still during
\* the call.
MainSave ==
    /\ pc = "save"
    /\ \E rd \in {[i \in 1..(2 * Len(fresh) + 1) |-> now]} :
         \E existing_data \in {load_existing_data(fs)} :
          \E output_data \in {IF Raised(existing_data) THEN existing_data
                               ELSE execute(fresh, existing_data, rd)} :
            LET temp == temp_path(OutputPath)
            IN  /\ ~Raised(output_data)
                /\ fs' = rename(write_text(fs, temp, output_data), temp, OutputPath)
                /\ prev' = existing_data
                /\ reads' = rd
                /\ out' = output_data
    /\ called' = Append(called, "save")
    /\ call' = [op |-> "save"]
    /\ pc' = "load_past"
    /\ UNCHANGED <<fresh, now, result, before, seen, runs, ctor, rating, ret,
                   fetchers, scores, periodVars, raceVars>>

\* save raises in _write_to_file: the temporary file is removed and the
\* exception leaves main.
MainSaveRaises ==
    /\ pc = "save"
    /\ \E rd \in {[i \in 1..(2 * Len(fresh) + 1) |-> now]} :
         \E existing_data \in {load_existing_data(fs)} :
          \E output_data \in {IF Raised(existing_data) THEN existing_data
                               ELSE execute(fresh, existing_data, rd)} :
            LET temp == temp_path(OutputPath)
            IN  /\ ~Raised(output_data)
                /\ fs' = cleanup(write_text_partial(fs, temp, output_data), temp)
                /\ prev' = existing_data
                /\ reads' = rd
                /\ out' = output_data
    /\ called' = Append(called, "save")
    /\ call' = [op |-> "save"]
    /\ pc' = "idle"
    /\ result' = "save_raised"
    /\ UNCHANGED <<fresh, now, before, seen, runs, ctor, rating, ret,
                   fetchers, scores, periodVars, raceVars>>

\* Lines 59-62: past_games = repository.load_past_games_without_rating(),
\* then the test of past_games; lines 67-82 write nothing.
MainLoadPast ==
    /\ pc = "load_past"
    /\ \E past_games \in {load_past_games_without_rating(fs)} :
          /\ ret' = past_games
          /\ IF has_past_games(past_games)
             THEN pc' = "enrich_past" /\ result' = "none"
             ELSE pc' = "idle" /\ result' = "returned"
    /\ called' = Append(called, "load_past_games_without_rating")
    /\ call' = [op |-> "load_past_games_without_rating"]
    /\ UNCHANGED <<prev, fresh, reads, out, fs, now, before, seen, runs,
                   ctor, rating, fetchers, scores, periodVars, raceVars>>

\* Line 64: enriched_past = enrich_games(past_games, rating_adapter).
MainEnrichPast ==
    /\ pc = "enrich_past"
    /\ \E found \in [1..Len(ret) -> AdapterOutcomes] :
          ret' = enrich_games(ret, found)
    /\ pc' = "patch"
    /\ UNCHANGED <<prev, fresh, reads, out, fs, now, result, before, seen, runs,
                   ctor, rating, call, fetchers, scores, called, periodVars, raceVars>>

\* Line 65: past_updated = repository.update_past_ratings(enriched_past)
\* returns, and main runs to its end.
MainPatch ==
    /\ pc = "patch"
    /\ IF ret = <<>>
       THEN /\ call' = [op |-> "update_past_ratings", past_updated |-> 0]
            /\ fs' = fs
       ELSE \E p \in {PatchOf(fs, ret, now)} :
              /\ call' = [op |-> "update_past_ratings", past_updated |-> p.count]
              /\ fs' = IF should_write(p.count)
                       THEN rename(write_text(fs, temp_path(OutputPath), p.doc),
                                   temp_path(OutputPath), OutputPath)
                       ELSE fs
    /\ called' = Append(called, "update_past_ratings")
    /\ pc' = "idle"
    /\ result' = "returned"
    /\ UNCHANGED <<prev, fresh, reads, out, now, before, seen, runs,
                   ctor, rating, ret, fetchers, scores, periodVars, raceVars>>

\* update_past_ratings raises in _write_to_file: the exception leaves main.
MainPatchRaises ==
    /\ pc = "patch"
    /\ ret # <<>>
    /\ \E p \in {PatchOf(fs, ret, now)} :
          /\ should_write(p.count)
          /\ fs' = cleanup(write_text_partial(fs, temp_path(OutputPath), p.doc),
                           temp_path(OutputPath))
    /\ call' = [op |-> "update_past_ratings"]
    /\ called' = Append(called, "update_past_ratings")
    /\ pc' = "idle"
    /\ result' = "patch_raised"
    /\ UNCHANGED <<prev, fresh, reads, out, now, before, seen, runs,
                   ctor, rating, ret, fetchers, scores, periodVars, raceVars>>

NextMain ==
    \/ Tick
    \/ MainFetch
    \/ MainFetchRaises
    \/ MainEnrich
    \/ MainSave
    \/ MainSaveRaises
    \/ MainLoadPast
    \/ MainEnrichPast
    \/ MainPatch
    \/ MainPatchRaises

SpecMain == InitMain /\ [][NextMain]_vars

-----------------------------------------------------------------------------
(* Properties of the entry point, checked under SpecMain *)

\* The order in which one run of main calls the repository.
RepositoryCalls == <<"save", "load_past_games_without_rating", "update_past_ratings">>

\* The records of the previous currentFree that this run's save moved to the
\* past: their id is in neither new list.
MigratedRecords ==
    {rec \in RangeOf(ExistingCurrentList(prev)) :
        rec.id \notin IdsOf(out.currentFree) \cup IdsOf(out.upcoming)}

\* C33: the repository calls of one run are a beginning of save,
\* load_past_games_without_rating, update_past_ratings, in that order;
\* update_past_ratings is called only with a list that is not empty; and the
\* list load_past_games_without_rating returned holds the Game of every
\* record this run's save moved from currentFree to past that has no rating
\* and gives a Game.
C33_SaveThenBackfill ==
    /\ \E k \in 0..3 : called = SubSeq(RepositoryCalls, 1, k)
    /\ Len(called) = 3 => ret # <<>>
    /\ Len(called) >= 2 =>
          \A rec \in MigratedRecords :
              (~HasRating(rec) /\ dict_to_game(rec) # None) =>
                  \E k \in 1..Len(ret) :
                      /\ ret[k].id = rec.id
                      /\ ret[k].title = rec.title
                      /\ ret[k].end = dict_to_game(rec)[1].end

C33_Witness ==
    /\ called = RepositoryCalls
    /\ result = "returned"
    /\ runs = 2
    /\ before.kind = "object"
    /\ \E rec \in MigratedRecords :
          /\ rec \in RangeOf(before.doc.currentFree)
          /\ rec.title = 1
          /\ ~HasRating(rec)
          /\ \E k \in 1..Len(ret) : ret[k].id = rec.id /\ ret[k].rating # None
          /\ \E i \in 1..Len(fs[OutputPath].doc.past) :
                /\ fs[OutputPath].doc.past[i].id = rec.id
                /\ HasRating(fs[OutputPath].doc.past[i])

\* C34: after a fetch that returned the empty list the run is over, has
\* called no method of the repository, and output_path holds what it held
\* when the run started; no temporary file exists.
C34_EmptyFetchWritesNothing ==
    (runs >= 1 /\ fresh = <<>> /\ result # "fetch_raised") =>
        /\ result = "no_games"
        /\ pc = "idle"
        /\ called = <<>>
        /\ fs[OutputPath] = before
        /\ ~exists(fs, temp_path(OutputPath))

\* The run ended on an empty fetch while the stored currentFree holds a
\* record whose window is over.
C34_Witness ==
    /\ result = "no_games"
    /\ runs = 2
    /\ before.kind = "object"
    /\ fs[OutputPath] = before
    /\ Len(before.doc.currentFree) = 1
    /\ fromisoformat(before.doc.currentFree[1].freePeriod.end)[1] < now

\* C38: every record of the new currentFree and upcoming is the record
\* _game_to_dict makes of a game of this run's list, with a rating object
\* only when that game has a Rating, and the two lists are the ones the same
\* games and clock values give on an empty previous document.
C38_LiveListsFromFreshOnly ==
    Len(called) >= 1 =>
        /\ \A rec \in RangeOf(out.currentFree) \cup RangeOf(out.upcoming) :
              \E i \in 1..Len(fresh) :
                  /\ rec = game_to_dict(fresh[i])
                  /\ "rating" \in DOMAIN rec <=> fresh[i].rating # None
        /\ out.currentFree = execute(fresh, EmptyDict, reads).currentFree
        /\ out.upcoming = execute(fresh, EmptyDict, reads).upcoming

C38_Witness ==
    /\ Len(called) >= 1
    /\ runs = 2
    /\ Len(ExistingCurrentList(prev)) = 1
    /\ HasRating(prev.currentFree[1])
    /\ Len(fresh) = 1
    /\ fresh[1].id = prev.currentFree[1].id
    /\ fresh[1].rating = None
    /\ out.currentFree = <<game_to_dict(fresh[1])>>
    /\ "rating" \notin DOMAIN out.currentFree[1]
    /\ out.past = prev.past

-----------------------------------------------------------------------------
(* SpecRace: two calls of JsonFileRepository.save on one output_path that  *)
(* run at the same time, each a process of its own; no lock is taken and   *)
(* both use output_path.with_suffix('.tmp').  write_text is one step.      *)

Procs == {1, 2}

\* The merge that reads output_path again when it runs.
merge_input_reread(existing_data, fsv) == load_existing_data(fsv)

\* Lines 24-25: execute gets the existing_data line 24 loaded, whatever
\* output_path holds by now.
merge_input(existing_data, fsv) == existing_data

\* The locals of a call of save(games) that has not started.
SaveCall(games) ==
    [pc |-> "start", games |-> games, existing_data |-> Pending,
     output_data |-> Pending, result |-> "none"]

\* The clock stands still while the two calls run.
StandingClock(games) == [i \in 1..(2 * Len(games) + 1) |-> now]

InitRace ==
    /\ fs \in {EmptyDir, [EmptyDir EXCEPT ![OutputPath] = Obj(MainDoc)]}
    /\ before = fs[OutputPath]
    /\ now \in 0..MaxTime
    /\ procs \in {<<SaveCall(g1), SaveCall(g2)>> : g1, g2 \in FetchedLists}
    /\ pc = "idle"
    /\ result = "none"
    /\ prev = Pending
    /\ fresh = <<>>
    /\ reads = <<>>
    /\ out = Pending
    /\ seen = {}
    /\ runs = 0
    /\ RatingIdle
    /\ PeriodIdle

\* Line 24: existing_data = self._load_existing_data().
RaceLoad(p) ==
    /\ procs[p].pc = "start"
    /\ procs' = [procs EXCEPT ![p].pc = "loaded",
                              ![p].existing_data = load_existing_data(fs)]
    /\ UNCHANGED <<storeVars, ratingVars, periodVars>>

\* Line 25: output_data = SaveGamesUseCase(...).execute(games, existing_data).
RaceExecute(p) ==
    /\ procs[p].pc = "loaded"
    /\ procs' = [procs EXCEPT
                    ![p].pc = "write",
                    ![p].output_data =
                        execute(procs[p].games,
                                merge_input(procs[p].existing_data, fs),
                                StandingClock(procs[p].games))]
    /\ UNCHANGED <<storeVars, ratingVars, periodVars>>

\* Lines 30-38: mkdir, then the temporary file is written.
RaceWriteTemp(p) ==
    /\ procs[p].pc = "write"
    /\ fs' = write_text(fs, temp_path(OutputPath), procs[p].output_data)
    /\ procs' = [procs EXCEPT ![p].pc = "rename"]
    /\ UNCHANGED <<prev, fresh, reads, out, now, pc, result, before, seen, runs,
                   ratingVars, periodVars>>

\* Line 40: the rename moves whatever the temporary file holds by now.
RaceRename(p) ==
    /\ procs[p].pc = "rename"
    /\ exists(fs, temp_path(OutputPath))
    /\ fs' = rename(fs, temp_path(OutputPath), OutputPath)
    /\ procs' = [procs EXCEPT ![p].pc = "done", ![p].result = "ok"]
    /\ UNCHANGED <<prev, fresh, reads, out, now, pc, result, before, seen, runs,
                   ratingVars, periodVars>>

\* Line 40 raises FileNotFoundError: the other call has renamed the file away.
RaceRenameFails(p) ==
    /\ procs[p].pc = "rename"
    /\ ~exists(fs, temp_path(OutputPath))
    /\ procs' = [procs EXCEPT ![p].pc = "except"]
    /\ UNCHANGED <<storeVars, ratingVars, periodVars>>

\* Lines 42-47: the except branch removes the temporary file if one is there
\* by now, and re-raises.
RaceExcept(p) ==
    /\ procs[p].pc = "except"
    /\ fs' = cleanup(fs, temp_path(OutputPath))
    /\ procs' = [procs EXCEPT ![p].pc = "done", ![p].result = "write_raised"]
    /\ UNCHANGED <<prev, fresh, reads, out, now, pc, result, before, seen, runs,
                   ratingVars, periodVars>>

NextRace ==
    \/ \E p \in Procs : RaceLoad(p)
    \/ \E p \in Procs : RaceExecute(p)
    \/ \E p \in Procs : RaceWriteTemp(p)
    \/ \E p \in Procs : RaceRename(p)
    \/ \E p \in Procs : RaceRenameFails(p)
    \/ \E p \in Procs : RaceExcept(p)

SpecRace == InitRace /\ [][NextRace]_vars

-----------------------------------------------------------------------------
(* Properties of two calls of save at the same time, checked under SpecRace *)

\* The directory that holds f in output_path and no temporary file.
FilesWith(f) == [EmptyDir EXCEPT ![OutputPath] = f]

\* The document in output_path after save(first) and then save(second), one
\* after the other, on the files the two calls started from.
SerialDoc(first, second) ==
    LET d1 == execute(first, load_existing_data(FilesWith(before)), StandingClock(first))
    IN  execute(second, load_existing_data(FilesWith(Obj(d1))), StandingClock(second))

SerialFiles ==
    {Obj(SerialDoc(procs[1].games, procs[2].games)),
     Obj(SerialDoc(procs[2].games, procs[1].games))}

BothReturned == \A p \in Procs : procs[p].pc = "done" /\ procs[p].result = "ok"

\* Both calls loaded what output_path held before either of them renamed.
BothLoadedFirst ==
    \A p \in Procs : procs[p].existing_data = load_existing_data(FilesWith(before))

\* Each call saves one game that is free now, and the two ids differ.
SaveDistinctLiveGames ==
    /\ \A p \in Procs :
          Len(procs[p].games) = 1 /\ is_currently_free(procs[p].games[1], now)
    /\ procs[1].games[1].id # procs[2].games[1].id

\* C36: when both calls have returned, output_path holds the document one of
\* them merged from what it had loaded; when both had loaded before either
\* renamed and they save different games that are free now, that document
\* is neither of the two documents that running the calls one after the
\* other gives: the games of the other call are lost.
C36_LostUpdate ==
    BothReturned =>
        /\ fs[OutputPath] \in {Obj(procs[p].output_data) : p \in Procs}
        /\ ~exists(fs, temp_path(OutputPath))
        /\ (BothLoadedFirst /\ SaveDistinctLiveGames) => fs[OutputPath] \notin SerialFiles

\* The record of the first call's game is in neither list of the document
\* left in output_path, and in each of the two documents a serial run gives.
C36_Witness ==
    /\ BothReturned
    /\ before.kind = "object"
    /\ fs[OutputPath] \notin SerialFiles
    /\ fs[OutputPath] = Obj(procs[2].output_data)
    /\ procs[1].games # <<>>
    /\ LET lost == game_to_dict(procs[1].games[1])
       IN  /\ lost \notin RangeOf(fs[OutputPath].doc.currentFree)
                          \cup RangeOf(fs[OutputPath].doc.past)
           /\ \A d \in SerialFiles :
                 lost \in RangeOf(d.doc.currentFree) \cup RangeOf(d.doc.past)

====
